---- MODULE Spec2Model ----
(***************************************************************************)
(* Dijkstar: the Graph type (src/dijkstar/graph.py) and the Dijkstra/A*    *)
(* search (src/dijkstar/algorithm.py).                                     *)
(*                                                                         *)
(* A Python dict is a sequence of <<key, value>> pairs with distinct keys, *)
(* in insertion order: assigning to an existing key keeps its place, a new *)
(* key is appended, and iteration follows the sequence.                    *)
(***************************************************************************)
EXTENDS Integers, Sequences, FiniteSets, TLC

\* ------------------------------------------------------------------ bounds
\* nodes are 1..MaxNode
MaxNode == 3
\* edge labels of the mutated graph are 1..MaxLabel
MaxLabel == 2
\* mutating calls made on the graph after its construction (an add_node call
\* with several neighbors counts once per neighbor)
MaxOps == 2
\* entries of a neighbors dict passed to add_node or to Graph(data)
MaxNbrs == 2
\* edge labels of a searched graph are 0..MaxWeight
MaxWeight == 1
\* arcs of a built searched graph and its annex together
MaxBuild == 2

Nodes == 1..MaxNode
Labels == 1..MaxLabel
Weights == 0..MaxWeight

\* Python's None: the "no predecessor" sentinel and the absent previous edge.
None == -1

\* ------------------------------------------------------------------- dicts
EmptyDict == << >>

Keys(d) == {d[i][1] : i \in 1..Len(d)}

Has(d, k) == \E i \in 1..Len(d) : d[i][1] = k

IndexOf(d, k) == CHOOSE i \in 1..Len(d) : d[i][1] = k

\* d[k] for a key that is present
Get(d, k) == d[IndexOf(d, k)][2]

\* d[k] = v
Put(d, k, v) ==
    IF Has(d, k) THEN [d EXCEPT ![IndexOf(d, k)] = <<k, v>>]
    ELSE Append(d, <<k, v>>)

\* del d[k] for a key that is present
Del(d, k) ==
    LET keep(p) == p[1] # k
    IN SelectSeq(d, keep)

\* dict == dict: the same keys with equal values, whatever the order
DictEq(a, b) ==
    /\ Keys(a) = Keys(b)
    /\ \A k \in Keys(a) : Get(a, k) = Get(b, k)

\* equality of two dicts of dicts
Dict2Eq(a, b) ==
    /\ Keys(a) = Keys(b)
    /\ \A k \in Keys(a) : DictEq(Get(a, k), Get(b, k))

\* collections.defaultdict(dict).__getitem__: reading a missing key stores {}
Touch(d, k) == IF Has(d, k) THEN d ELSE Append(d, <<k, EmptyDict>>)

\* ----------------------------------------------------------------- Graph
\* Graph.__init__ with data=None
NewGraph(undirected) ==
    [data |-> EmptyDict, incoming |-> EmptyDict, undirected |-> undirected]

\* data[u][v] = edge, creating data[u] when it is missing
SetArc(data, u, v, edge) ==
    IF Has(data, u) THEN Put(data, u, Put(Get(data, u), v, edge))
    ELSE Put(data, u, <<<<v, edge>>>>)

\* incoming[v][u] = edge on the defaultdict
SetIncoming(incoming, v, u, edge) ==
    LET inc == Touch(incoming, v)
    IN Put(inc, v, Put(Get(inc, v), u, edge))

\* add_edge without line 113: the reverse arc is stored but not indexed
add_edge_NoReverseIncoming(G, u, v, edge) ==
    LET data1 == SetArc(G.data, u, v, edge)
        inc1 == SetIncoming(G.incoming, v, u, edge)
    IN IF G.undirected
       THEN [G EXCEPT !.data = SetArc(data1, v, u, edge), !.incoming = inc1]
       ELSE [G EXCEPT !.data = data1, !.incoming = inc1]

\* add_edge whose undirected branch stores the reverse arc only when v is
\* not yet a key of data (lines 108-110 dropped)
add_edge_KeepsPresentReverse(G, u, v, edge) ==
    LET data1 == SetArc(G.data, u, v, edge)
        inc1 == SetIncoming(G.incoming, v, u, edge)
    IN IF G.undirected
       THEN [G EXCEPT !.data = IF Has(data1, v) THEN data1
                                ELSE SetArc(data1, v, u, edge),
                      !.incoming = SetIncoming(inc1, u, v, edge)]
       ELSE [G EXCEPT !.data = data1, !.incoming = inc1]

\* add_edge that makes the target v a key of data in a directed graph too
add_edge_CreatesTarget(G, u, v, edge) ==
    LET data1 == SetArc(G.data, u, v, edge)
        inc1 == SetIncoming(G.incoming, v, u, edge)
    IN IF G.undirected
       THEN [G EXCEPT !.data = SetArc(data1, v, u, edge),
                      !.incoming = SetIncoming(inc1, u, v, edge)]
       ELSE [G EXCEPT !.data = Touch(data1, v), !.incoming = inc1]

add_edge(G, u, v, edge) ==
    LET data1 == SetArc(G.data, u, v, edge)
        inc1 == SetIncoming(G.incoming, v, u, edge)
    IN IF G.undirected
       THEN [G EXCEPT !.data = SetArc(data1, v, u, edge),
                      !.incoming = SetIncoming(inc1, u, v, edge)]
       ELSE [G EXCEPT !.data = data1, !.incoming = inc1]

\* the loop of add_node that leaves a neighbor of u that is already stored
\* with its old edge (line 179 skipped for a present v)
RECURSIVE AddNeighbors_SkipsPresent(_, _, _, _)
AddNeighbors_SkipsPresent(G, u, neighbors, i) ==
    IF i > Len(neighbors) THEN G
    ELSE LET v == neighbors[i][1]
             e == neighbors[i][2]
             data1 == Put(G.data, u, Put(Get(G.data, u), v, e))
             inc1 == SetIncoming(G.incoming, v, u, e)
             G1 == IF Has(Get(G.data, u), v) THEN G
                   ELSE IF G.undirected
                   THEN [G EXCEPT !.data = SetArc(data1, v, u, e),
                                  !.incoming = SetIncoming(inc1, u, v, e)]
                   ELSE [G EXCEPT !.data = data1, !.incoming = inc1]
         IN AddNeighbors_SkipsPresent(G1, u, neighbors, i + 1)

\* the loop of add_node over neighbors.items(), from item i on
RECURSIVE AddNeighbors(_, _, _, _)
AddNeighbors(G, u, neighbors, i) ==
    IF i > Len(neighbors) THEN G
    ELSE LET v == neighbors[i][1]
             e == neighbors[i][2]
             data1 == Put(G.data, u, Put(Get(G.data, u), v, e))
             inc1 == SetIncoming(G.incoming, v, u, e)
             G1 == IF G.undirected
                   THEN [G EXCEPT !.data = SetArc(data1, v, u, e),
                                  !.incoming = SetIncoming(inc1, u, v, e)]
                   ELSE [G EXCEPT !.data = data1, !.incoming = inc1]
         IN AddNeighbors(G1, u, neighbors, i + 1)

\* add_node that replaces the neighbors of u in an undirected graph too
\* (line 167 without its condition)
add_node_AlwaysReplaces(G, u, neighbors) ==
    AddNeighbors([G EXCEPT !.data = Put(G.data, u, EmptyDict)], u, neighbors, 1)

\* add_node that never replaces the neighbors of a node that is present
\* (line 167 without `directed or`)
add_node_AlwaysMerges(G, u, neighbors) ==
    LET data0 == IF ~Has(G.data, u) THEN Put(G.data, u, EmptyDict) ELSE G.data
    IN AddNeighbors([G EXCEPT !.data = data0], u, neighbors, 1)

\* neighbors is a dict; None is passed as the empty dict (line 164)
add_node(G, u, neighbors) ==
    LET data0 == IF ~G.undirected \/ ~Has(G.data, u)
                 THEN Put(G.data, u, EmptyDict)
                 ELSE G.data
    IN AddNeighbors([G EXCEPT !.data = data0], u, neighbors, 1)

\* MutableMapping.update(data): self[u] = data[u] for each key, in order
RECURSIVE UpdateFrom(_, _, _)
UpdateFrom(G, d, i) ==
    IF i > Len(d) THEN G
    ELSE UpdateFrom(add_node(G, d[i][1], d[i][2]), d, i + 1)

\* Graph(data, undirected)
GraphInit(d, undirected) == UpdateFrom(NewGraph(undirected), d, 1)

\* del incoming[v][u]; if not incoming[v]: del incoming[v]
\* (the defaultdict read stores {} for a missing v before the del fails)
DelIncoming(incoming, v, u) ==
    LET inc == Touch(incoming, v)
    IN IF ~Has(Get(inc, v), u) THEN [incoming |-> inc, exc |-> "KeyError"]
       ELSE LET rest == Del(Get(inc, v), u)
            IN [incoming |-> IF rest = EmptyDict THEN Del(inc, v)
                             ELSE Put(inc, v, rest),
                exc |-> "None"]

\* Each remover returns the graph it leaves and the exception it raised
\* ("None" when it returned).
remove_edge(G, u, v) ==
    IF ~Has(G.data, u) \/ ~Has(Get(G.data, u), v)
    THEN [G |-> G, exc |-> "KeyError"]
    ELSE LET data1 == Put(G.data, u, Del(Get(G.data, u), v))
             r1 == DelIncoming(G.incoming, v, u)
             G1 == [G EXCEPT !.data = data1, !.incoming = r1.incoming]
         IN IF r1.exc # "None" THEN [G |-> G1, exc |-> r1.exc]
            ELSE IF ~Has(data1, v) THEN [G |-> G1, exc |-> "KeyError"]
            ELSE IF ~Has(Get(data1, v), u) THEN [G |-> G1, exc |-> "None"]
            ELSE LET data2 == Put(data1, v, Del(Get(data1, v), u))
                     r2 == DelIncoming(r1.incoming, u, v)
                 IN [G |-> [G EXCEPT !.data = data2, !.incoming = r2.incoming],
                     exc |-> r2.exc]

\* for v in incoming[u]: del data[v][u]   (from item i of the iterated dict)
RECURSIVE DelArcsInto(_, _, _, _)
DelArcsInto(data, preds, u, i) ==
    IF i > Len(preds) THEN [data |-> data, exc |-> "None"]
    ELSE LET v == preds[i][1]
         IN IF ~Has(data, v) \/ ~Has(Get(data, v), u)
            THEN [data |-> data, exc |-> "KeyError"]
            ELSE DelArcsInto(Put(data, v, Del(Get(data, v), u)), preds, u, i + 1)

\* for v in neighbors: del incoming[v][u]; if not incoming[v]: del incoming[v]
RECURSIVE DelIncomingFrom(_, _, _, _)
DelIncomingFrom(incoming, neighbors, u, i) ==
    IF i > Len(neighbors) THEN [incoming |-> incoming, exc |-> "None"]
    ELSE LET r == DelIncoming(incoming, neighbors[i][1], u)
         IN IF r.exc # "None" THEN r
            ELSE DelIncomingFrom(r.incoming, neighbors, u, i + 1)

remove_node(G, u) ==
    IF ~Has(G.data, u) THEN [G |-> G, exc |-> "KeyError"]
    ELSE LET inc0 == Touch(G.incoming, u)
             r1 == DelArcsInto(G.data, Get(inc0, u), u, 1)
             G1 == [G EXCEPT !.data = r1.data, !.incoming = inc0]
         IN IF r1.exc # "None" THEN [G |-> G1, exc |-> r1.exc]
            ELSE LET r2 == DelIncomingFrom(inc0, Get(r1.data, u), u, 1)
                     G2 == [G1 EXCEPT !.incoming = r2.incoming]
                 IN IF r2.exc # "None" THEN [G |-> G2, exc |-> r2.exc]
                    ELSE IF ~Has(r2.incoming, u)
                    THEN [G |-> [G2 EXCEPT !.data = Del(r1.data, u)],
                          exc |-> "KeyError"]
                    ELSE [G |-> [G2 EXCEPT !.data = Del(r1.data, u),
                                           !.incoming = Del(r2.incoming, u)],
                          exc |-> "None"]

\* subgraph.add_edge(u, v, edge) for the items of neighbors, from item j on
RECURSIVE CopyNeighbors(_, _, _, _)
CopyNeighbors(S, u, neighbors, j) ==
    IF j > Len(neighbors) THEN S
    ELSE CopyNeighbors(add_edge(S, u, neighbors[j][1], neighbors[j][2]),
                       u, neighbors, j + 1)

\* the first loop of subgraph over nodes, from node i on: self[u] raises for
\* a u that is no key of data
RECURSIVE CopyNodes(_, _, _, _)
CopyNodes(G, S, nodes, i) ==
    IF i > Len(nodes) THEN [G |-> S, exc |-> "None"]
    ELSE IF ~Has(G.data, nodes[i]) THEN [G |-> S, exc |-> "KeyError"]
    ELSE CopyNodes(G, CopyNeighbors(S, nodes[i], Get(G.data, nodes[i]), 1),
                   nodes, i + 1)

\* for v in nodes: if v in neighbors: del neighbors[v], from node j on
RECURSIVE DelMembers(_, _, _)
DelMembers(neighbors, nodes, j) ==
    IF j > Len(nodes) THEN neighbors
    ELSE DelMembers(IF Has(neighbors, nodes[j]) THEN Del(neighbors, nodes[j])
                    ELSE neighbors, nodes, j + 1)

\* the second loop of subgraph, from node i on: subgraph[u] raises for a u
\* that is no key of the subgraph; the incoming index is not touched
RECURSIVE Disconnect(_, _, _)
Disconnect(S, nodes, i) ==
    IF i > Len(nodes) THEN [G |-> S, exc |-> "None"]
    ELSE IF ~Has(S.data, nodes[i]) THEN [G |-> S, exc |-> "KeyError"]
    ELSE Disconnect([S EXCEPT !.data =
                        Put(S.data, nodes[i],
                            DelMembers(Get(S.data, nodes[i]), nodes, 1))],
                    nodes, i + 1)

\* subgraph that strips the arcs between members whatever disconnect is
subgraph_AlwaysDisconnects(G, nodes, disconnect) ==
    LET r == CopyNodes(G, NewGraph(FALSE), nodes, 1)
    IN IF r.exc # "None" THEN r ELSE Disconnect(r.G, nodes, 1)

\* Graph.subgraph: G is the subgraph returned, or what was built of it when
\* the call raised; self.__class__() is a directed graph
subgraph(G, nodes, disconnect) ==
    LET r == CopyNodes(G, NewGraph(FALSE), nodes, 1)
    IN IF r.exc # "None" \/ ~disconnect THEN r
       ELSE Disconnect(r.G, nodes, 1)

\* Graph.get_incoming: the defaultdict read stores {} for a missing v
get_incoming(G, v) ==
    LET inc == Touch(G.incoming, v)
    IN [G |-> [G EXCEPT !.incoming = inc], value |-> Get(inc, v)]

\* ------------------------------------------------------------ dump, load
\* A file holds a sequence of bytes. The opcodes of pickle (protocol 4) that
\* a dict of dicts of small integers needs:
PROTO == 128
FRAME == 149
EMPTY_DICT == 125
MEMOIZE == 148
MARK == 40
BININT1 == 75
SETITEM == 115
SETITEMS == 117
STOP == 46

\* the type codes of marshal for a dict, its end and an integer
TYPE_DICT == 123
TYPE_NULL == 48
TYPE_INT == 105

\* pickle of the dict d: its items one by one with SETITEM for a single item
\* and between MARK and SETITEMS for more; the values of the dict are dicts
\* when nested is set and integers otherwise
RECURSIVE PickleDict(_, _)
RECURSIVE PickleItems(_, _, _)
PickleItems(d, i, nested) ==
    IF i > Len(d) THEN << >>
    ELSE <<BININT1, d[i][1]>>
         \o (IF nested THEN PickleDict(d[i][2], FALSE) ELSE <<BININT1, d[i][2]>>)
         \o PickleItems(d, i + 1, nested)

PickleDict(d, nested) ==
    <<EMPTY_DICT, MEMOIZE>>
    \o (IF Len(d) = 0 THEN << >>
        ELSE IF Len(d) = 1 THEN PickleItems(d, 1, nested) \o <<SETITEM>>
        ELSE <<MARK>> \o PickleItems(d, 1, nested) \o <<SETITEMS>>)

\* pickle.dump(self._data, fp): the bytes written; a body of fewer than 4
\* bytes gets no frame, and the 8 bytes of the frame length are one number
pickle_dump(data) ==
    LET body == PickleDict(data, TRUE) \o <<STOP>>
    IN IF Len(body) < 4 THEN <<PROTO, 4>> \o body
       ELSE <<PROTO, 4, FRAME, Len(body)>> \o body

\* marshal of the dict d (format version 0: no object references, an
\* integer as one number)
RECURSIVE MarshalDict(_, _)
RECURSIVE MarshalItems(_, _, _)
MarshalItems(d, i, nested) ==
    IF i > Len(d) THEN << >>
    ELSE <<TYPE_INT, d[i][1]>>
         \o (IF nested THEN MarshalDict(d[i][2], FALSE) ELSE <<TYPE_INT, d[i][2]>>)
         \o MarshalItems(d, i + 1, nested)

MarshalDict(d, nested) ==
    <<TYPE_DICT>> \o MarshalItems(d, 1, nested) \o <<TYPE_NULL>>

\* marshal.dump(self._data, fp): the bytes written
marshal_dump(data) == MarshalDict(data, TRUE)

\* the index of the topmost MARK of the unpickler stack, 0 when there is none
TopMark(stack) ==
    LET marks == {k \in 1..Len(stack) : stack[k].t = "mark"}
    IN IF marks = {} THEN 0 ELSE CHOOSE k \in marks : \A j \in marks : j <= k

\* dict[k] = v for the key, value pairs of the stack items from index k on
RECURSIVE SetItems(_, _, _)
SetItems(d, items, k) ==
    IF k + 1 > Len(items) THEN d
    ELSE SetItems(Put(d, items[k].v, items[k + 1].v), items, k + 2)

\* one opcode of the unpickler, a stack machine reading the bytes b at index
\* st.i; st.exc is "run" until the machine stops
PickleStep(b, st) ==
    LET i == st.i
        stack == st.stack
        n == Len(stack)
        bad == [st EXCEPT !.exc = "UnpicklingError"]
        push(x, k) == [st EXCEPT !.i = i + k, !.stack = Append(stack, x)]
    IN CASE i > Len(b) -> [st EXCEPT !.exc = "EOFError"]
         [] i <= Len(b) /\ b[i] = PROTO ->
                IF i + 1 > Len(b) THEN bad ELSE [st EXCEPT !.i = i + 2]
         [] i <= Len(b) /\ b[i] = FRAME ->
                IF i + 1 > Len(b) \/ Len(b) - (i + 1) < b[i + 1] THEN bad
                ELSE [st EXCEPT !.i = i + 2]
         [] i <= Len(b) /\ b[i] = EMPTY_DICT ->
                push([t |-> "dict", v |-> EmptyDict], 1)
         [] i <= Len(b) /\ b[i] = MEMOIZE ->
                IF n = 0 THEN bad ELSE [st EXCEPT !.i = i + 1]
         [] i <= Len(b) /\ b[i] = MARK -> push([t |-> "mark", v |-> 0], 1)
         [] i <= Len(b) /\ b[i] = BININT1 ->
                IF i + 1 > Len(b) THEN bad
                ELSE push([t |-> "int", v |-> b[i + 1]], 2)
         [] i <= Len(b) /\ b[i] = SETITEM ->
                IF n < 3 \/ stack[n - 2].t # "dict" \/ stack[n - 1].t # "int"
                THEN bad
                ELSE [st EXCEPT !.i = i + 1,
                         !.stack = Append(SubSeq(stack, 1, n - 3),
                             [t |-> "dict",
                              v |-> Put(stack[n - 2].v, stack[n - 1].v,
                                        stack[n].v)])]
         [] i <= Len(b) /\ b[i] = SETITEMS ->
                LET m == TopMark(stack)
                IN IF m < 2 \/ stack[m - 1].t # "dict" \/ (n - m) % 2 # 0
                   THEN bad
                   ELSE [st EXCEPT !.i = i + 1,
                            !.stack = Append(SubSeq(stack, 1, m - 2),
                                [t |-> "dict",
                                 v |-> SetItems(stack[m - 1].v,
                                                SubSeq(stack, m + 1, n), 1)])]
         [] i <= Len(b) /\ b[i] = STOP ->
                IF n = 0 \/ stack[n].t = "mark" THEN bad
                ELSE [st EXCEPT !.exc = "None"]
         [] OTHER -> bad

RECURSIVE PickleRun(_, _)
PickleRun(b, st) ==
    IF st.exc = "run" THEN PickleRun(b, PickleStep(b, st))
    ELSE IF st.exc = "None"
    THEN [value |-> st.stack[Len(st.stack)].v, exc |-> "None"]
    ELSE [value |-> None, exc |-> st.exc]

\* pickle.load(fp)
pickle_load(b) == PickleRun(b, [i |-> 1, stack |-> << >>, exc |-> "run"])

\* marshal's reader of one object of the bytes b at index i: next is the
\* index after the object
RECURSIVE MarshalRead(_, _)
RECURSIVE MarshalReadItems(_, _, _)
MarshalReadItems(b, i, d) ==
    IF i > Len(b) THEN [value |-> None, next |-> i, exc |-> "EOFError"]
    ELSE IF b[i] = TYPE_NULL THEN [value |-> d, next |-> i + 1, exc |-> "None"]
    ELSE LET k == MarshalRead(b, i)
         IN IF k.exc # "None" THEN k
            ELSE LET v == MarshalRead(b, k.next)
                 IN IF v.exc # "None" THEN v
                    ELSE MarshalReadItems(b, v.next, Put(d, k.value, v.value))

MarshalRead(b, i) ==
    IF i > Len(b) THEN [value |-> None, next |-> i, exc |-> "EOFError"]
    ELSE IF b[i] = TYPE_INT
    THEN IF i + 1 > Len(b) THEN [value |-> None, next |-> i, exc |-> "EOFError"]
         ELSE [value |-> b[i + 1], next |-> i + 2, exc |-> "None"]
    ELSE IF b[i] = TYPE_DICT THEN MarshalReadItems(b, i + 1, EmptyDict)
    ELSE [value |-> None, next |-> i, exc |-> "ValueError"]

\* marshal.load(fp)
marshal_load(b) ==
    LET r == MarshalRead(b, 1) IN [value |-> r.value, exc |-> r.exc]

\* Graph._read: cls(reader(fp)), a directed graph built from the data
_read(reader_result) ==
    IF reader_result.exc # "None" THEN [G |-> NewGraph(FALSE), exc |-> reader_result.exc]
    ELSE [G |-> GraphInit(reader_result.value, FALSE), exc |-> "None"]

\* Graph.load and Graph.unmarshal of the bytes of a file
load(b) == _read(pickle_load(b))

unmarshal(b) == _read(marshal_load(b))

\* Graph.dump and Graph.marshal: the bytes written for the graph G
dump(G) == pickle_dump(G.data)

marshal(G) == marshal_dump(G.data)

\* os.path.splitext(from_)[1] for the file names used
splitext(name) ==
    CASE name = "g.pickle" -> ".pickle"
      [] name = "g.marshal" -> ".marshal"
      [] name = "g.dat" -> ".dat"
      [] OTHER -> ""

\* ext.lstrip('.') for the extensions used
lstrip(ext) ==
    CASE ext = ".pickle" -> "pickle"
      [] ext = ".marshal" -> "marshal"
      [] ext = ".dat" -> "dat"
      [] OTHER -> ext

\* Graph.guess_load(from_, ext): from_ is a path (a str naming a file) or an
\* open file at its start, bytes being the content of the file; ext = "" is
\* None. tried lists the decoders run.
guess_load(from_, ext) ==
    LET ext1 == IF ext = "" /\ from_.isstr THEN splitext(from_.name) ELSE ext
        ext2 == IF ext1 # "" THEN lstrip(ext1) ELSE ext1
        l == load(from_.bytes)
        m == marshal_load(from_.bytes)
    IN IF ext2 = "pickle" THEN [G |-> l.G, exc |-> l.exc, tried |-> <<"pickle">>]
       ELSE IF ext2 = "marshal"
       THEN [G |-> unmarshal(from_.bytes).G, exc |-> unmarshal(from_.bytes).exc,
             tried |-> <<"marshal">>]
       ELSE IF l.exc # "UnpicklingError"
       THEN [G |-> l.G, exc |-> l.exc, tried |-> <<"pickle">>]
       ELSE IF from_.isstr
       THEN [G |-> NewGraph(FALSE), exc |-> "AttributeError",
             tried |-> <<"pickle">>]
       ELSE IF m.exc = "None"
       THEN [G |-> GraphInit(m.value, FALSE), exc |-> "None",
             tried |-> <<"pickle", "marshal">>]
       ELSE [G |-> NewGraph(FALSE), exc |-> "ValueError",
             tried |-> <<"pickle", "marshal">>]

\* ---------------------------------------------------------------- search
\* The caller's cost_func of test_path_with_cost_func, on integer labels: the
\* base cost of an edge is its label, the label is also its category, and a
\* change of category multiplies the cost by 1.25 (all costs scaled by 4).
cost_func(u, v, e, prev_e) ==
    IF prev_e # None /\ e # prev_e THEN 5 * e ELSE 4 * e

\* The caller's heuristic of test_find_path_with_heuristic.
heuristic(u, v, e, prev_e) ==
    (IF v = 2 THEN u + 1 ELSE 0) + (IF e # prev_e THEN 1 ELSE 0)

\* cost_func(u, v, e, prev_e) if cost_func else e
CostOfEdge(cf, u, v, e, prev_e) ==
    IF cf THEN cost_func(u, v, e, prev_e) ELSE e

\* a queue of (cost, node) pairs without the counter: equal costs are broken
\* by comparing the nodes
HeapMin_ByNode(q) ==
    CHOOSE x \in q : \A y \in q : x[1] < y[1] \/ (x[1] = y[1] /\ x[3] < y[3])
                                 \/ (x[1] = y[1] /\ x[3] = y[3] /\ x[2] <= y[2])

\* heappop: the least (cost, counter, node) tuple; counters are distinct
HeapMin(q) ==
    CHOOSE x \in q : \A y \in q : x[1] < y[1] \/ (x[1] = y[1] /\ x[2] <= y[2])

\* an annex argument: None, or the data dict of the annex graph
NoAnnex == [given |-> FALSE, data |-> EmptyDict]

AnnexOf(G) == [given |-> TRUE, data |-> G.data]

\* line 159 never taken: the annex is not consulted
NeighborsOf_BaseOnly(graph, annex, u) ==
    IF Has(graph, u) THEN Get(graph, u) ELSE EmptyDict

\* the annex neighbors of u merged with its base neighbors
NeighborsOf_Merged(graph, annex, u) ==
    LET own == IF annex.given /\ Has(annex.data, u)
               THEN Get(annex.data, u) ELSE EmptyDict
        other(p) == ~Has(own, p[1])
    IN IF Has(graph, u) THEN own \o SelectSeq(Get(graph, u), other) ELSE own

\* annex.get(u) or graph.get(u): empty annex neighbors fall back to the base
NeighborsOf_EmptyFallsBack(graph, annex, u) ==
    IF annex.given /\ Has(annex.data, u) /\ Get(annex.data, u) # EmptyDict
    THEN Get(annex.data, u)
    ELSE IF Has(graph, u) THEN Get(graph, u) ELSE EmptyDict

\* annex[u] if annex and u in annex else (graph[u] if u in graph else None);
\* None and {} both make "not neighbors" true, so None is returned as {}
NeighborsOf(graph, annex, u) ==
    IF annex.given /\ annex.data # EmptyDict /\ Has(annex.data, u)
    THEN Get(annex.data, u)
    ELSE IF Has(graph, u) THEN Get(graph, u) ELSE EmptyDict

\* line 121 as costs = {}: the start node has no recorded cost
SearchStart_NoCost(s) ==
    [costs |-> << >>,
     predecessors |-> (s :> <<None, None, None>>),
     visit_queue |-> {<<0, 0, s>>},
     visited |-> {},
     counter |-> 1,
     pc |-> "loop"]

\* the state of a search after lines 117-140
SearchStart(s) ==
    [costs |-> (s :> 0),
     predecessors |-> (s :> <<None, None, None>>),
     visit_queue |-> {<<0, 0, s>>},
     visited |-> {},
     counter |-> 1,
     pc |-> "loop"]

\* line 197 without its second disjunct: the first cost found is kept
Improves_FirstOnly(costs, v, new_cost) == v \notin DOMAIN costs

\* line 197 with >= for >: an equal tentative cost replaces the recorded one
Improves_OrEqual(costs, v, new_cost) == v \notin DOMAIN costs \/ costs[v] >= new_cost

\* a tentative cost replaces the recorded one (line 197)
Improves(costs, v, new_cost) == v \notin DOMAIN costs \/ costs[v] > new_cost

\* line 206 recording the cost with the heuristic added in
RECURSIVE Relax_HeuristicRecorded(_, _, _, _, _, _, _, _)
Relax_HeuristicRecorded(st, neighbors, i, u, cost_of_s_to_u, prev_e, cf, hf) ==
    IF i > Len(neighbors) THEN st
    ELSE LET v == neighbors[i][1]
             e == neighbors[i][2]
             cost_of_e == CostOfEdge(cf, u, v, e, prev_e)
             new_cost == cost_of_s_to_u + cost_of_e
                         + (IF hf THEN heuristic(u, v, e, prev_e) ELSE 0)
             st1 == IF v \notin st.visited /\ Improves(st.costs, v, new_cost)
                    THEN [st EXCEPT
                            !.costs = (v :> new_cost) @@ st.costs,
                            !.predecessors =
                                (v :> <<u, e, new_cost - cost_of_s_to_u>>)
                                @@ st.predecessors,
                            !.visit_queue = st.visit_queue
                                            \cup {<<new_cost, st.counter, v>>},
                            !.counter = st.counter + 1]
                    ELSE st
         IN Relax_HeuristicRecorded(st1, neighbors, i + 1, u, cost_of_s_to_u,
                                    prev_e, cf, hf)

\* lines 175-176 left out: a visited neighbor is treated like any other
RECURSIVE Relax_Backtracks(_, _, _, _, _, _, _, _)
Relax_Backtracks(st, neighbors, i, u, cost_of_s_to_u, prev_e, cf, hf) ==
    IF i > Len(neighbors) THEN st
    ELSE LET v == neighbors[i][1]
             e == neighbors[i][2]
             cost_of_e == CostOfEdge(cf, u, v, e, prev_e)
             new_cost == cost_of_s_to_u + cost_of_e
                         + (IF hf THEN heuristic(u, v, e, prev_e) ELSE 0)
             st1 == IF Improves(st.costs, v, new_cost)
                    THEN [st EXCEPT
                            !.costs = (v :> new_cost) @@ st.costs,
                            !.predecessors = (v :> <<u, e, cost_of_e>>)
                                             @@ st.predecessors,
                            !.visit_queue = st.visit_queue
                                            \cup {<<new_cost, st.counter, v>>},
                            !.counter = st.counter + 1]
                    ELSE st
         IN Relax_Backtracks(st1, neighbors, i + 1, u, cost_of_s_to_u,
                             prev_e, cf, hf)

\* lines 173-207: the loop over u's neighbors, from item i on
RECURSIVE Relax(_, _, _, _, _, _, _, _)
Relax(st, neighbors, i, u, cost_of_s_to_u, prev_e, cf, hf) ==
    IF i > Len(neighbors) THEN st
    ELSE LET v == neighbors[i][1]
             e == neighbors[i][2]
             cost_of_e == CostOfEdge(cf, u, v, e, prev_e)
             new_cost == cost_of_s_to_u + cost_of_e
                         + (IF hf THEN heuristic(u, v, e, prev_e) ELSE 0)
             st1 == IF v \notin st.visited /\ Improves(st.costs, v, new_cost)
                    THEN [st EXCEPT
                            !.costs = (v :> new_cost) @@ st.costs,
                            !.predecessors = (v :> <<u, e, cost_of_e>>)
                                             @@ st.predecessors,
                            !.visit_queue = st.visit_queue
                                            \cup {<<new_cost, st.counter, v>>},
                            !.counter = st.counter + 1]
                    ELSE st
         IN Relax(st1, neighbors, i + 1, u, cost_of_s_to_u, prev_e, cf, hf)

\* lines 209-210 left out: the predecessor map is returned whatever d is
SearchFinish_NoCheck(st, d) == [st EXCEPT !.pc = "returned"]

\* lines 209-215, after the loop: raise NoPathError or return the
\* predecessor map
SearchFinish(st, d) ==
    IF d # None /\ d \notin DOMAIN st.costs
    THEN [st EXCEPT !.pc = "NoPathError"]
    ELSE [st EXCEPT !.pc = "returned"]

\* line 157 moved below the loop over the neighbors: u is marked visited only
\* after its neighbors were examined
SearchIter_VisitsLate(st, graph, annex, d, cf, hf) ==
    LET top == HeapMin(st.visit_queue)
        cost_of_s_to_u == top[1]
        u == top[3]
        st1 == [st EXCEPT !.visit_queue = st.visit_queue \ {top}]
    IN IF u = d THEN SearchFinish(st1, d)
       ELSE IF u \in st.visited THEN st1
       ELSE LET neighbors == NeighborsOf(graph, annex, u)
                st2 == IF neighbors = EmptyDict THEN st1
                       ELSE Relax(st1, neighbors, 1, u, cost_of_s_to_u,
                                  st.predecessors[u][2], cf, hf)
            IN [st2 EXCEPT !.visited = st2.visited \cup {u}]

\* heappop as a read of the least entry when its node is already visited: the
\* stale entry stays in the queue
SearchIter_KeepsStale(st, graph, annex, d, cf, hf) ==
    LET top == HeapMin(st.visit_queue)
        cost_of_s_to_u == top[1]
        u == top[3]
        st1 == [st EXCEPT !.visit_queue = st.visit_queue \ {top}]
    IN IF u = d THEN SearchFinish(st1, d)
       ELSE IF u \in st.visited THEN st
       ELSE LET st2 == [st1 EXCEPT !.visited = st.visited \cup {u}]
                neighbors == NeighborsOf(graph, annex, u)
            IN IF neighbors = EmptyDict THEN st2
               ELSE Relax(st2, neighbors, 1, u, cost_of_s_to_u,
                          st.predecessors[u][2], cf, hf)

\* lines 148-149 moved below the loop over the neighbors: the destination is
\* visited and expanded like any node before the loop is left
SearchIter_ExpandsDest(st, graph, annex, d, cf, hf) ==
    LET top == HeapMin(st.visit_queue)
        cost_of_s_to_u == top[1]
        u == top[3]
        st1 == [st EXCEPT !.visit_queue = st.visit_queue \ {top}]
    IN IF u \in st.visited THEN st1
       ELSE LET st2 == [st1 EXCEPT !.visited = st.visited \cup {u}]
                neighbors == NeighborsOf(graph, annex, u)
                st3 == IF neighbors = EmptyDict THEN st2
                       ELSE Relax(st2, neighbors, 1, u, cost_of_s_to_u,
                                  st.predecessors[u][2], cf, hf)
            IN IF u = d THEN SearchFinish(st3, d) ELSE st3

\* lines 142-207: one pass of the while loop (the queue is not empty); the
\* break of line 149 leads to lines 209-215
SearchIter(st, graph, annex, d, cf, hf) ==
    LET top == HeapMin(st.visit_queue)
        cost_of_s_to_u == top[1]
        u == top[3]
        st1 == [st EXCEPT !.visit_queue = st.visit_queue \ {top}]
    IN IF u = d THEN SearchFinish(st1, d)
       ELSE IF u \in st.visited THEN st1
       ELSE LET st2 == [st1 EXCEPT !.visited = st.visited \cup {u}]
                neighbors == NeighborsOf(graph, annex, u)
            IN IF neighbors = EmptyDict THEN st2
               ELSE Relax(st2, neighbors, 1, u, cost_of_s_to_u,
                          st.predecessors[u][2], cf, hf)

\* line 142 with an empty queue: the loop ends, lines 209-215 follow
SearchExit(st, d) == SearchFinish(st, d)

RECURSIVE SumSeq(_)
SumSeq(q) == IF q = << >> THEN 0 ELSE Head(q) + SumSeq(Tail(q))

Reverse(q) == [i \in 1..Len(q) |-> q[Len(q) + 1 - i]]

\* lines 235-242: the walk back from d, with the lists still reversed
RECURSIVE WalkBack(_, _, _, _, _)
WalkBack(predecessors, p, nodes, edges, costs) ==
    IF p[1] = None THEN [nodes |-> nodes, edges |-> edges, costs |-> costs]
    ELSE WalkBack(predecessors, predecessors[p[1]], Append(nodes, p[1]),
                  Append(edges, p[2]), Append(costs, p[3]))

\* lines 243-245 left out: the lists stay in walking order, d first
extract_NotReversed(predecessors, d) ==
    LET w == WalkBack(predecessors, predecessors[d], <<d>>, << >>, << >>)
    IN [nodes |-> w.nodes,
        edges |-> w.edges,
        costs |-> w.costs,
        total_cost |-> SumSeq(w.costs)]

\* d is a key of predecessors
extract_shortest_path_from_predecessor_list(predecessors, d) ==
    LET w == WalkBack(predecessors, predecessors[d], <<d>>, << >>, << >>)
    IN [nodes |-> Reverse(w.nodes),
        edges |-> Reverse(w.edges),
        costs |-> Reverse(w.costs),
        total_cost |-> SumSeq(Reverse(w.costs))]

NoPathInfo == [nodes |-> << >>, edges |-> << >>, costs |-> << >>, total_cost |-> None]

\* the whole of single_source_shortest_paths, run to its return or raise
RECURSIVE SearchRun(_, _, _, _, _, _)
SearchRun(st, graph, annex, d, cf, hf) ==
    IF st.pc # "loop" THEN st
    ELSE IF st.visit_queue = {} THEN SearchExit(st, d)
    ELSE SearchRun(SearchIter(st, graph, annex, d, cf, hf), graph, annex, d, cf, hf)

\* find_path: [exc, path]
find_path(graph, s, d, annex, cf, hf) ==
    LET st == SearchRun(SearchStart(s), graph, annex, d, cf, hf)
    IN IF st.pc = "NoPathError" THEN [exc |-> "NoPathError", path |-> NoPathInfo]
       ELSE [exc |-> "None",
             path |-> extract_shortest_path_from_predecessor_list(st.predecessors, d)]

\* ------------------------------------------------------------------ state
VARIABLES
    graph,   \* the Graph: [data, incoming, undirected]
    exc,     \* what the last mutating call raised, "None" when it returned
    nops,    \* mutating calls made so far, counted as MaxOps says
    annex,   \* the Graph the caller keeps as annex
    call,    \* the arguments of the search call: [s, d, annex, cf, hf]
    srch,    \* the locals of single_source_shortest_paths
    path,    \* the PathInfo find_path returned
    peer     \* a second search call in progress on the same graph and
             \* annex: [call, srch], its arguments and its locals

vars == <<graph, exc, nops, annex, call, srch, path, peer>>

\* The graph code treats nodes and labels only through equality, so a call's
\* arguments are drawn up to renaming: a node (label) is one already in use
\* or the least one not yet in use.
MaxOf(S) == IF S = {} THEN 0 ELSE CHOOSE x \in S : \A y \in S : y <= x

UpToNext(S) == 1..(MaxOf(S) + 1)

NodesOfDict(dd) ==
    Keys(dd) \cup UNION {Keys(Get(dd, k)) : k \in Keys(dd)}

LabelsOfDict(dd) ==
    UNION {{Get(Get(dd, k), j) : j \in Keys(Get(dd, k))} : k \in Keys(dd)}

UsedNodes(G) == NodesOfDict(G.data) \cup NodesOfDict(G.incoming)

UsedLabels(G) == LabelsOfDict(G.data) \cup LabelsOfDict(G.incoming)

NodeChoices(used) == Nodes \cap UpToNext(used)

LabelChoices(used) == Labels \cap UpToNext(used)

\* the dicts of at most n entries drawn that way, entry by entry, with keys
\* outside taken
RECURSIVE NeighborChoices(_, _, _, _)
NeighborChoices(n, usedNodes, usedLabels, taken) ==
    IF n <= 0 THEN {EmptyDict}
    ELSE {EmptyDict} \cup
         UNION {{<<<<v, e>>>> \o rest :
                    rest \in NeighborChoices(n - 1, usedNodes \cup {v},
                                             usedLabels \cup {e}, taken \cup {v})} :
                  v \in NodeChoices(usedNodes) \ taken,
                  e \in LabelChoices(usedLabels)}

\* the data arguments a Graph is constructed from: no node, or one node
InitData ==
    {EmptyDict} \cup {<<<<1, nb>>>> : nb \in NeighborChoices(MaxNbrs, {1}, {}, {})}

\* the arguments of the next mutating call
CallNodes == IF nops < MaxOps THEN NodeChoices(UsedNodes(graph)) ELSE {}

CallNodes2(u) == NodeChoices(UsedNodes(graph) \cup {u})

CallLabels == LabelChoices(UsedLabels(graph))

CallNeighbors(u) ==
    NeighborChoices(IF MaxOps - nops < MaxNbrs THEN MaxOps - nops ELSE MaxNbrs,
                    UsedNodes(graph) \cup {u}, UsedLabels(graph), {})

SearchIdle ==
    [costs |-> << >>, predecessors |-> << >>, visit_queue |-> {},
     visited |-> {}, counter |-> 0, pc |-> "idle"]

NoCall == [s |-> None, d |-> None, annex |-> FALSE, cf |-> FALSE, hf |-> FALSE]

NoPeer == [call |-> NoCall, srch |-> SearchIdle]

\* --------------------------------------------------- the mutated graph
Init ==
    /\ \E undirected \in BOOLEAN, d0 \in InitData :
           /\ graph = GraphInit(d0, undirected)
           /\ nops = IF d0 # EmptyDict /\ Len(d0[1][2]) > 1
                     THEN Len(d0[1][2]) - 1 ELSE 0
    /\ exc = "None"
    /\ annex = NewGraph(FALSE)
    /\ call = NoCall
    /\ srch = SearchIdle
    /\ path = NoPathInfo
    /\ peer = NoPeer

AddEdge(u, v, e) ==
    /\ nops < MaxOps
    /\ graph' = add_edge(graph, u, v, e)
    /\ exc' = "None"
    /\ nops' = nops + 1
    /\ UNCHANGED <<annex, call, srch, path, peer>>

AddNode(u, neighbors) ==
    /\ nops < MaxOps
    /\ nops + Len(neighbors) <= MaxOps
    /\ graph' = add_node(graph, u, neighbors)
    /\ exc' = "None"
    /\ nops' = IF Len(neighbors) > 1 THEN nops + Len(neighbors) ELSE nops + 1
    /\ UNCHANGED <<annex, call, srch, path, peer>>

RemoveEdge(u, v) ==
    /\ nops < MaxOps
    /\ LET r == remove_edge(graph, u, v)
       IN graph' = r.G /\ exc' = r.exc
    /\ nops' = nops + 1
    /\ UNCHANGED <<annex, call, srch, path, peer>>

RemoveNode(u) ==
    /\ nops < MaxOps
    /\ LET r == remove_node(graph, u)
       IN graph' = r.G /\ exc' = r.exc
    /\ nops' = nops + 1
    /\ UNCHANGED <<annex, call, srch, path, peer>>

Next ==
    \/ \E u \in CallNodes : \E v \in CallNodes2(u) : \E e \in CallLabels :
           AddEdge(u, v, e)
    \/ \E u \in CallNodes : \E neighbors \in CallNeighbors(u) :
           AddNode(u, neighbors)
    \/ \E u \in CallNodes : \E v \in CallNodes2(u) : RemoveEdge(u, v)
    \/ \E u \in CallNodes : RemoveNode(u)

Spec == Init /\ [][Next]_vars

\* every stored arc u -> v with label e has incoming[v][u] = e
Mirrored(G) ==
    \A u \in Keys(G.data) : \A v \in Keys(Get(G.data, u)) :
        /\ Has(G.incoming, v)
        /\ Has(Get(G.incoming, v), u)
        /\ Get(Get(G.incoming, v), u) = Get(Get(G.data, u), v)

\* every incoming[v][u] = e has a stored arc u -> v with label e
NoStale(G) ==
    \A v \in Keys(G.incoming) : \A u \in Keys(Get(G.incoming, v)) :
        /\ Has(G.data, u)
        /\ Has(Get(G.data, u), v)
        /\ Get(Get(G.data, u), v) = Get(Get(G.incoming, v), u)

\* ------------------------------------------------------ the searched graph
\* graph1 of the tests (test_algorithm.py, setUp)
Graph1Data ==
    << <<1, << <<2, 1>>, <<3, 2>> >> >>,
       <<2, << <<1, 1>>, <<4, 2>>, <<5, 2>> >> >>,
       <<3, << <<4, 2>> >> >>,
       <<4, << <<2, 2>>, <<3, 2>>, <<5, 1>> >> >>,
       <<5, << <<2, 2>>, <<4, 1>> >> >> >>

\* graph2 of the tests, with a..i as 1..9
Graph2Data ==
    << <<1, << <<2, 10>>, <<4, 1>> >> >>,
       <<2, << <<1, 1>>, <<3, 2>>, <<5, 3>> >> >>,
       <<3, << <<2, 1>>, <<6, 2>> >> >>,
       <<4, << <<1, 1>>, <<5, 2>>, <<7, 3>> >> >>,
       <<5, << <<2, 1>>, <<4, 2>>, <<6, 3>>, <<8, 4>> >> >>,
       <<6, << <<3, 1>>, <<5, 2>>, <<9, 3>> >> >>,
       <<7, << <<4, 1>>, <<8, 2>> >> >>,
       <<8, << <<5, 1>>, <<7, 2>>, <<9, 3>> >> >>,
       <<9, << <<6, 1>>, <<8, 2>> >> >> >>

\* the dict graph3 of the tests is constructed from, with a..g as 1..7
Graph3Data ==
    << <<1, << <<2, 10>>, <<3, 100>>, <<4, 1>> >> >>,
       <<2, << <<3, 10>> >> >>,
       <<4, << <<2, 1>>, <<5, 1>> >> >>,
       <<5, << <<6, 1>> >> >> >>

\* graph3 of the tests: the constructor, then add_node('f', {'c': 1}),
\* graph['f'] = {'c': 1}, add_edge('f', 'c', 1) and add_edge('g', 'b', 1)
Graph3 ==
    LET g0 == GraphInit(Graph3Data, FALSE)
        g1 == add_node(g0, 6, << <<3, 1>> >>)
        g2 == add_node(g1, 6, << <<3, 1>> >>)
        g3 == add_edge(g2, 6, 3, 1)
    IN add_edge(g3, 7, 2, 1)

\* the annex of test_find_path_with_annex, Graph({1: {2: 1, 3: 0.5}}), with
\* the label 0.5 as 0: labels are integers here
Annex1Data == << <<1, << <<2, 1>>, <<3, 0>> >> >> >>

\* A graph a caller builds with one dear arc 1 -> 2 and a cheaper way round
\* through 3: Graph({1: {2: 4, 3: 1}, 3: {2: 2}, 2: {4: 4}})
DetourData ==
    << <<1, << <<2, 4>>, <<3, 1>> >> >>,
       <<3, << <<2, 2>> >> >>,
       <<2, << <<4, 4>> >> >> >>

\* the annex argument of the call: None, or the annex graph's data
AnnexArg == IF call.annex THEN AnnexOf(annex) ELSE NoAnnex

\* A caller either takes a graph of the tests or the detour graph as it is, or
\* builds a graph
\* with add_edge calls and an annex with one constructor call, of at most
\* MaxBuild arcs together, then searches. nops is the number of arcs the
\* caller may no longer add.
SearchInit ==
    /\ \/ graph = NewGraph(FALSE) /\ annex = NewGraph(FALSE) /\ nops = 0
       \/ /\ graph = GraphInit(Graph1Data, FALSE)
          /\ annex \in {NewGraph(FALSE), GraphInit(Annex1Data, FALSE)}
          /\ nops = MaxBuild
       \/ /\ graph \in {Graph3, GraphInit(DetourData, FALSE)}
          /\ annex = NewGraph(FALSE)
          /\ nops = MaxBuild
    /\ exc = "None"
    /\ call = NoCall
    /\ srch = SearchIdle
    /\ path = NoPathInfo
    /\ peer = NoPeer

BuildEdge(u, v, w) ==
    /\ srch.pc = "idle"
    /\ graph' = add_edge(graph, u, v, w)
    /\ UNCHANGED <<exc, nops, annex, call, srch, path, peer>>

BuildAnnex(u, neighbors) ==
    /\ srch.pc = "idle"
    /\ annex' = GraphInit(<<<<u, neighbors>>>>, FALSE)
    /\ UNCHANGED <<exc, nops, graph, call, srch, path, peer>>

\* find_path(graph, s, d, annex, cost_func, heuristic_func) is entered, or
\* single_source_shortest_paths(graph, s, None, ...) when d is None
StartSearch(s, d, withAnnex, cf, hf) ==
    /\ srch.pc = "idle"
    /\ call' = [s |-> s, d |-> d, annex |-> withAnnex, cf |-> cf, hf |-> hf]
    /\ srch' = SearchStart(s)
    /\ UNCHANGED <<graph, exc, nops, annex, path, peer>>

\* graph[u] read as through a defaultdict: a missing u is stored with {}
Iterate_StoresMissing ==
    /\ srch.pc = "loop"
    /\ srch.visit_queue # {}
    /\ srch' = SearchIter(srch, graph.data, AnnexArg, call.d, call.cf, call.hf)
    /\ graph' = [graph EXCEPT
                   !.data = Touch(graph.data, HeapMin(srch.visit_queue)[3])]
    /\ UNCHANGED <<exc, nops, annex, call, path, peer>>

Iterate ==
    /\ srch.pc = "loop"
    /\ srch.visit_queue # {}
    /\ srch' = SearchIter(srch, graph.data, AnnexArg, call.d, call.cf, call.hf)
    /\ UNCHANGED <<graph, exc, nops, annex, call, path, peer>>

ExitLoop ==
    /\ srch.pc = "loop"
    /\ srch.visit_queue = {}
    /\ srch' = SearchExit(srch, call.d)
    /\ UNCHANGED <<graph, exc, nops, annex, call, path, peer>>

\* find_path, line 57
Extract ==
    /\ srch.pc = "returned"
    /\ call.d # None
    /\ path' = extract_shortest_path_from_predecessor_list(srch.predecessors, call.d)
    /\ srch' = [srch EXCEPT !.pc = "done"]
    /\ UNCHANGED <<graph, exc, nops, annex, call, peer>>

\* The arguments of the building calls. The search reads a graph only through
\* graph[u] and the order of each neighbors dict, so the calls are drawn up to
\* renaming and up to the order of the outer dict: the start node of a built
\* graph is named 1, every add_edge call adds a new arc, sources come in
\* increasing order, and the annex is constructed after the graph.
RECURSIVE ArcCount(_)
ArcCount(dd) == IF dd = EmptyDict THEN 0 ELSE Len(Head(dd)[2]) + ArcCount(Tail(dd))

BuildUsed == UsedNodes(graph) \cup UsedNodes(annex) \cup {1}

CanBuild ==
    /\ srch.pc = "idle"
    /\ annex.data = EmptyDict
    /\ nops + ArcCount(graph.data) < MaxBuild

EdgeSources ==
    IF CanBuild
    THEN {u \in NodeChoices(BuildUsed) : u >= MaxOf(Keys(graph.data))}
    ELSE {}

EdgeTargets(u) ==
    {v \in NodeChoices(BuildUsed \cup {u}) :
        ~(Has(graph.data, u) /\ Has(Get(graph.data, u), v))}

AnnexNodes == IF CanBuild THEN NodeChoices(BuildUsed) ELSE {}

\* the neighbors dicts of at most n arcs, nodes drawn up to renaming
RECURSIVE WeightedNeighbors(_, _, _)
WeightedNeighbors(n, usedNodes, taken) ==
    IF n <= 0 THEN {EmptyDict}
    ELSE {EmptyDict} \cup
         UNION {{<<<<v, w>>>> \o rest :
                    rest \in WeightedNeighbors(n - 1, usedNodes \cup {v},
                                               taken \cup {v})} :
                  v \in NodeChoices(usedNodes) \ taken, w \in Weights}

AnnexNeighbors(u) ==
    LET left == MaxBuild - nops - ArcCount(graph.data)
    IN WeightedNeighbors(IF left < MaxNbrs THEN left ELSE MaxNbrs,
                         BuildUsed \cup {u}, {})

\* The arguments of the search call. On a graph of the tests every node and
\* the next one, which is not in the graph, is a start node. An annex that has nodes is
\* passed.
StartNodes ==
    IF srch.pc # "idle" THEN {}
    ELSE IF nops = MaxBuild THEN UpToNext(BuildUsed)
    ELSE {1}

DestNodes(s) == UpToNext(BuildUsed \cup {s}) \cup {None}

AnnexChoices == IF annex.data = EmptyDict THEN BOOLEAN ELSE {TRUE}

SearchNext ==
    \/ \E u \in EdgeSources : \E v \in EdgeTargets(u) : \E w \in Weights :
           BuildEdge(u, v, w)
    \/ \E u \in AnnexNodes : \E neighbors \in AnnexNeighbors(u) :
           BuildAnnex(u, neighbors)
    \/ \E s \in StartNodes : \E d \in DestNodes(s) :
       \E withAnnex \in AnnexChoices, cf \in BOOLEAN, hf \in BOOLEAN :
           StartSearch(s, d, withAnnex, cf, hf)
    \/ Iterate
    \/ ExitLoop
    \/ Extract

SearchSpec == SearchInit /\ [][SearchNext]_vars

\* ------------------------------------------------------- two search calls
\* Two callers search the same graph and annex at once; nobody mutates either
\* graph. Each call runs single_source_shortest_paths with its own locals
\* (lines 117-140), and the passes of their while loops interleave freely.
TwoInit ==
    /\ \/ graph = GraphInit(Graph1Data, FALSE) /\ annex = GraphInit(Annex1Data, FALSE)
       \/ graph = GraphInit(DetourData, FALSE) /\ annex = NewGraph(FALSE)
    /\ nops = MaxBuild
    /\ exc = "None"
    /\ call = NoCall
    /\ srch = SearchIdle
    /\ path = NoPathInfo
    /\ peer = NoPeer

\* the annex argument of the second call
PeerAnnexArg == IF peer.call.annex THEN AnnexOf(annex) ELSE NoAnnex

\* the second caller enters single_source_shortest_paths
StartPeer(s, d, withAnnex, cf, hf) ==
    /\ peer.srch.pc = "idle"
    /\ peer' = [call |-> [s |-> s, d |-> d, annex |-> withAnnex,
                          cf |-> cf, hf |-> hf],
                srch |-> SearchStart(s)]
    /\ UNCHANGED <<graph, exc, nops, annex, call, srch, path>>

\* visited as one set both calls add to and test
IteratePeer_SharedVisited ==
    /\ peer.srch.pc = "loop"
    /\ peer.srch.visit_queue # {}
    /\ peer' = [peer EXCEPT !.srch =
                   SearchIter([peer.srch EXCEPT !.visited = @ \cup srch.visited],
                              graph.data, PeerAnnexArg, peer.call.d,
                              peer.call.cf, peer.call.hf)]
    /\ UNCHANGED <<graph, exc, nops, annex, call, srch, path>>

\* one pass of the second call's while loop
IteratePeer ==
    /\ peer.srch.pc = "loop"
    /\ peer.srch.visit_queue # {}
    /\ peer' = [peer EXCEPT !.srch =
                   SearchIter(peer.srch, graph.data, PeerAnnexArg, peer.call.d,
                              peer.call.cf, peer.call.hf)]
    /\ UNCHANGED <<graph, exc, nops, annex, call, srch, path>>

\* the second call's loop ends with its queue empty
ExitPeer ==
    /\ peer.srch.pc = "loop"
    /\ peer.srch.visit_queue = {}
    /\ peer' = [peer EXCEPT !.srch = SearchExit(peer.srch, peer.call.d)]
    /\ UNCHANGED <<graph, exc, nops, annex, call, srch, path>>

\* the arguments of the two calls: a start node that has neighbors in the
\* graph, a node or None as destination, the annex when there is one
TwoStarts == Nodes \cap Keys(graph.data)

TwoDests == Nodes \cup {None}

TwoNext ==
    \/ \E s \in TwoStarts : \E d \in TwoDests : \E cf \in BOOLEAN, hf \in BOOLEAN :
           StartSearch(s, d, annex.data # EmptyDict, cf, hf)
    \/ \E s \in TwoStarts : \E d \in TwoDests : \E cf \in BOOLEAN, hf \in BOOLEAN :
           StartPeer(s, d, annex.data # EmptyDict, cf, hf)
    \/ Iterate
    \/ ExitLoop
    \/ IteratePeer
    \/ ExitPeer

TwoSpec == TwoInit /\ [][TwoNext]_vars

\* ------------------------------------------- graphs with any numeric labels
\* A caller builds a graph whose labels may be negative or zero, cycles
\* included, and searches it from the first node it named, or searches the
\* detour graph or graph2 of the tests from any node. The negative label is one that differs from
\* the representation of None.
NegWeight == -2

SignedWeights == {NegWeight} \cup Weights

SignedInit ==
    /\ \/ graph = NewGraph(FALSE) /\ nops = 0
       \/ /\ graph \in {GraphInit(DetourData, FALSE), GraphInit(Graph2Data, FALSE)}
          /\ nops = MaxBuild
    /\ annex = NewGraph(FALSE)
    /\ exc = "None"
    /\ call = NoCall
    /\ srch = SearchIdle
    /\ path = NoPathInfo
    /\ peer = NoPeer

SignedNext ==
    \/ \E u \in EdgeSources : \E v \in EdgeTargets(u) : \E w \in SignedWeights :
           BuildEdge(u, v, w)
    \/ \E s \in StartNodes : \E d \in DestNodes(s) :
       \E cf \in BOOLEAN, hf \in BOOLEAN :
           StartSearch(s, d, FALSE, cf, hf)
    \/ Iterate
    \/ ExitLoop
    \/ Extract

SignedSpec == SignedInit /\ [][SignedNext]_vars

\* ------------------------------------------------------ running to the end
\* A caller builds a graph with negative, zero and positive labels, or takes
\* the detour graph, and calls single_source_shortest_paths with the plain
\* labels as costs. A call that has been entered keeps running: the
\* interpreter goes on to the next pass of the loop or to the statements
\* after it.
CycleWeights == {NegWeight, 0, 1}

CycleInit ==
    /\ \/ graph = NewGraph(FALSE) /\ nops = 0
       \/ graph = GraphInit(DetourData, FALSE) /\ nops = MaxBuild
    /\ annex = NewGraph(FALSE)
    /\ exc = "None"
    /\ call = NoCall
    /\ srch = SearchIdle
    /\ path = NoPathInfo
    /\ peer = NoPeer

CycleNext ==
    \/ \E u \in EdgeSources : \E v \in EdgeTargets(u) : \E w \in CycleWeights :
           BuildEdge(u, v, w)
    \/ \E s \in StartNodes : \E d \in DestNodes(s) :
           StartSearch(s, d, FALSE, FALSE, FALSE)
    \/ Iterate
    \/ ExitLoop

CycleFair == CycleInit /\ [][CycleNext]_vars /\ WF_vars(Iterate \/ ExitLoop)

\* ================================================================ claims
\* ----------------------------------------------------- the mutated graph
\* C1: after construction from initial data and any sequence of add_edge,
\* add_node, remove_edge and remove_node calls, on a directed or an undirected
\* graph, every stored arc u -> v with label e has incoming[v][u] = e.
C1_ArcsMirrored == Mirrored(graph)

\* C1 witness: some call has raised and left arcs stored, and two calls have
\* been made.
C1_Witness ==
    /\ nops = MaxOps
    /\ exc = "KeyError"
    /\ ArcCount(graph.data) > 0
    /\ Mirrored(graph)

\* C2: after any sequence of those calls the incoming index holds no stale
\* entry: incoming[v][u] = e only if the arc u -> v is stored with label e.
C2_NoStaleIncoming == NoStale(graph)

\* ---------------------------------------------------- the searched graph
\* find_path has returned its PathInfo (in path) / has raised NoPathError
Returned == srch.pc = "done"

Raised == srch.pc = "NoPathError"

\* The effective graph of the call, stated on the arguments: the annex
\* neighbors of a node the annex defines, its base-graph neighbors otherwise.
EffNeighbors(u) ==
    IF call.annex /\ Has(annex.data, u) THEN Get(annex.data, u)
    ELSE IF Has(graph.data, u) THEN Get(graph.data, u)
    ELSE EmptyDict

EffNodes == UsedNodes(graph) \cup UsedNodes(annex) \cup {call.s}

\* the arcs <<u, v, e>> of the effective graph
EffArcs ==
    UNION {{<<u, EffNeighbors(u)[i][1], EffNeighbors(u)[i][2]>> :
              i \in 1..Len(EffNeighbors(u))} :
           u \in Keys(graph.data) \cup Keys(annex.data)}

\* the nodes reachable from the nodes of S along the arcs of the set arcs
RECURSIVE ReachFrom(_, _)
ReachFrom(S, arcs) ==
    LET T == S \cup {a[2] : a \in {x \in arcs : x[1] \in S}}
    IN IF T = S THEN S ELSE ReachFrom(T, arcs)

Reachable(d) == d \in ReachFrom({call.s}, EffArcs)

\* the pairs <<v, c>> such that a walk of at most k arcs of the set arcs leads
\* from s to v and its labels sum to c
RECURSIVE WalkCosts(_, _)
WalkCosts(k, arcs) ==
    IF k = 0 THEN {<<call.s, 0>>}
    ELSE LET prev == WalkCosts(k - 1, arcs)
         IN prev \cup UNION {{<<a[2], p[2] + a[3]>> :
                                a \in {x \in arcs : x[1] = p[1]}} : p \in prev}

\* the least sum of labels over the paths from s to d (d is reachable; with
\* non-negative labels a least-cost path repeats no node)
MinCost(d) ==
    LET walks == WalkCosts(Cardinality(EffNodes), EffArcs)
        cs == {p[2] : p \in {x \in walks : x[1] = d}}
    IN CHOOSE c \in cs : \A c2 \in cs : c <= c2

\* C3: with non-negative labels, no cost function and no heuristic, the
\* total_cost find_path returns is the least total label over all paths from
\* s to d; on graph1, find_path(1, 4) returns nodes [1,2,4], edges [1,2],
\* costs [1,2] and total_cost 3.
C3_LeastCost ==
    /\ (call.d # None /\ ~call.cf /\ ~call.hf /\ Reachable(call.d)) => ~Raised
    /\ (Returned /\ ~call.cf /\ ~call.hf) =>
        /\ path.total_cost = MinCost(call.d)
        /\ (graph.data = Graph1Data /\ ~call.annex /\ call.s = 1 /\ call.d = 4) =>
               path = [nodes |-> <<1, 2, 4>>, edges |-> <<1, 2>>,
                       costs |-> <<1, 2>>, total_cost |-> 3]

\* C3 witness: a path of two arcs was returned although d is also a neighbor
\* of s: the direct arc costs more.
C3_Witness ==
    /\ Returned /\ ~call.cf /\ ~call.hf
    /\ Len(path.nodes) = 3
    /\ \E a \in EffArcs : a[1] = call.s /\ a[2] = call.d
    /\ path.total_cost = MinCost(call.d)

\* C4: find_path returns a PathInfo only if d is reachable from s in the
\* effective graph and raises NoPathError only if it is not.
C4_PathIffReachable ==
    /\ Returned => Reachable(call.d)
    /\ Raised => ~Reachable(call.d) /\ path = NoPathInfo

\* C4 witness: NoPathError for a start node that is in neither graph.
C4_Witness ==
    /\ Raised
    /\ call.s \notin UsedNodes(graph) \cup UsedNodes(annex)
    /\ call.d \in UsedNodes(graph)

\* absent from both graphs: neither a node nor a neighbor in either
Absent(d) == d \notin UsedNodes(graph) \cup UsedNodes(annex)

\* C5 as stated: whenever d is absent from both the base graph and the annex
\* the call raises NoPathError, whatever the start node.
C5_AbsentRaises_Original ==
    (call.d # None /\ Absent(call.d)) => ~Returned

\* C5 amended: whenever d is absent from both graphs and d is not the start
\* node, the call raises NoPathError and returns nothing.
C5_AbsentRaises ==
    (call.d # None /\ Absent(call.d) /\ call.d # call.s) =>
        /\ ~Returned
        /\ srch.pc # "returned"

\* C5 witness: NoPathError for an absent d, from a start node that has arcs.
C5_Witness ==
    /\ Raised
    /\ Absent(call.d)
    /\ \E a \in EffArcs : a[1] = call.s

\* C6: the PathInfo has one node more than edges and than costs, starts at s,
\* ends at d, and its total_cost is the sum of its costs.
C6_PathShape ==
    Returned =>
        /\ Len(path.nodes) = Len(path.edges) + 1
        /\ Len(path.nodes) = Len(path.costs) + 1
        /\ path.nodes[1] = call.s
        /\ path.nodes[Len(path.nodes)] = call.d
        /\ path.total_cost = SumSeq(path.costs)

\* C6 witness: a returned path of three nodes, found with a heuristic.
C6_Witness ==
    /\ Returned /\ call.hf
    /\ Len(path.nodes) = 3
    /\ path.nodes[1] # path.nodes[3]

\* C7: each consecutive pair of nodes of the PathInfo is an arc of the
\* effective graph and the edge at that place is the arc's label.
C7_PathFollowsArcs ==
    Returned =>
        \A i \in 1..Len(path.edges) :
            <<path.nodes[i], path.nodes[i + 1], path.edges[i]>> \in EffArcs

\* C7 witness: a returned path that leaves a node through its annex arc while
\* the base graph gives that node an arc too.
C7_Witness ==
    /\ Returned /\ call.annex
    /\ \E i \in 1..Len(path.edges) :
           /\ Has(annex.data, path.nodes[i])
           /\ Has(graph.data, path.nodes[i])
           /\ Get(graph.data, path.nodes[i]) # EmptyDict

\* C8: costs[i] is cost_func(nodes[i], nodes[i+1], edges[i], prev) with prev
\* the edge before, None for the first; without a cost function costs equals
\* edges; a heuristic changes neither.
C8_CostsAreEdgeCosts ==
    Returned =>
        /\ \A i \in 1..Len(path.costs) :
               path.costs[i] =
                   IF call.cf
                   THEN cost_func(path.nodes[i], path.nodes[i + 1], path.edges[i],
                                  IF i = 1 THEN None ELSE path.edges[i - 1])
                   ELSE path.edges[i]
        /\ ~call.cf => path.costs = path.edges
        /\ path.total_cost = SumSeq(path.costs)

\* C8 witness: cost function and heuristic both given, and the second edge of
\* the path paid the penalty for a change of category.
C8_Witness ==
    /\ Returned /\ call.cf /\ call.hf
    /\ Len(path.edges) >= 2
    /\ path.edges[2] # path.edges[1]
    /\ path.costs[2] = 5 * path.edges[2]
    /\ path.costs[2] > 0

\* C9: find_path(graph, s, s) returns nodes [s], no edges, no costs and
\* total_cost 0, and never raises.
C9_StartIsDest ==
    (call.d # None /\ call.d = call.s) =>
        /\ ~Raised
        /\ Returned => path = [nodes |-> <<call.s>>, edges |-> << >>,
                               costs |-> << >>, total_cost |-> 0]

\* C9 witness: the call returned for a start node that has arcs.
C9_Witness ==
    /\ Returned
    /\ call.d = call.s
    /\ \E a \in EffArcs : a[1] = call.s

\* the single graph M: annex[u] for the nodes of the annex, graph[u] otherwise
Merged ==
    IF call.annex
    THEN LET other(p) == ~Has(annex.data, p[1])
         IN annex.data \o SelectSeq(graph.data, other)
    ELSE graph.data

\* C10: the call on (graph, annex) ends as the same call on the merged graph
\* alone: the same PathInfo, the same predecessor map, or NoPathError in both.
C10_AnnexIsMerge ==
    /\ Returned =>
           LET r == find_path(Merged, call.s, call.d, NoAnnex, call.cf, call.hf)
           IN r.exc = "None" /\ r.path = path
    /\ Raised =>
           find_path(Merged, call.s, call.d, NoAnnex, call.cf, call.hf).exc
               = "NoPathError"
    /\ (srch.pc = "returned" /\ call.d = None) =>
           LET r == SearchRun(SearchStart(call.s), Merged, NoAnnex, call.d,
                              call.cf, call.hf)
           IN r.pc = "returned" /\ r.predecessors = srch.predecessors

\* C10 witness: the returned path leaves a node through its annex arc, the
\* annex took an arc of the base graph away from that node, and the search
\* without the annex ends otherwise.
C10_Witness ==
    /\ Returned /\ call.annex
    /\ \E i \in 1..Len(path.edges) :
           LET u == path.nodes[i]
           IN /\ Has(annex.data, u)
              /\ Has(graph.data, u)
              /\ \E v \in Keys(Get(graph.data, u)) : ~Has(Get(annex.data, u), v)
    /\ find_path(graph.data, call.s, call.d, NoAnnex, call.cf, call.hf).path # path

\* C11: from the entry of single_source_shortest_paths or find_path to its
\* return or its NoPathError, no step changes the base graph or the annex:
\* their outgoing adjacency and their incoming index stay as they were.
C11_SearchLeavesGraphs ==
    [][(srch.pc # "idle" \/ srch'.pc # "idle") =>
          (graph' = graph /\ annex' = annex)]_vars

\* C11 witness: a search with an annex over a base graph has raised
\* NoPathError after expanding a node that has no outgoing arcs.
C11_Witness ==
    /\ Raised /\ call.annex
    /\ graph.data # EmptyDict /\ annex.data # EmptyDict
    /\ \E u \in srch.visited : ~Has(graph.data, u) /\ ~Has(annex.data, u)

\* ------------------------------------------------ heuristic and cost function
\* C12: with a heuristic function, the cost recorded for every reached node v
\* is the recorded cost of its predecessor u plus the cost of the edge u -> v,
\* without the heuristic term.
C12_RecordedCostWithoutHeuristic ==
    (call.hf /\ srch.pc # "idle") =>
        \A v \in DOMAIN srch.costs \ {call.s} :
            srch.costs[v] = srch.costs[srch.predecessors[v][1]]
                            + srch.predecessors[v][3]

\* the pairs <<v, c>>: a walk of at most k arcs of the set arcs leads from u
\* to v and its labels sum to c
RECURSIVE WalkCostsFrom(_, _, _)
WalkCostsFrom(u, k, arcs) ==
    IF k = 0 THEN {<<u, 0>>}
    ELSE LET prev == WalkCostsFrom(u, k - 1, arcs)
         IN prev \cup UNION {{<<a[2], p[2] + a[3]>> :
                                a \in {x \in arcs : x[1] = p[1]}} : p \in prev}

\* the least sum of labels over the paths from u to d (d reachable from u)
LeastCost(u, d) ==
    LET walks == WalkCostsFrom(u, Cardinality(EffNodes), EffArcs)
        cs == {p[2] : p \in {x \in walks : x[1] = d}}
    IN CHOOSE c \in cs : \A c2 \in cs : c <= c2

\* the heuristic is not negative and, whatever the previous edge, never
\* above the least remaining cost from the current node u to d
HeuristicAdmissible ==
    \A a \in EffArcs :
        \A prev_e \in {None} \cup {x[3] : x \in EffArcs} :
            /\ heuristic(a[1], a[2], a[3], prev_e) >= 0
            /\ call.d \in ReachFrom({a[1]}, EffArcs) =>
                   heuristic(a[1], a[2], a[3], prev_e) <= LeastCost(a[1], call.d)

\* C13: with non-negative edge costs and a non-negative heuristic that never
\* overestimates the least remaining cost from the current node to d,
\* find_path with the heuristic returns the total_cost find_path returns
\* without it.
C13_AdmissibleKeepsTotalCost ==
    (Returned /\ call.hf /\ ~call.cf /\ HeuristicAdmissible) =>
        path.total_cost =
            find_path(graph.data, call.s, call.d, AnnexArg, FALSE, FALSE)
                .path.total_cost

\* the tuples <<v, e, c, seen>>: a path of at most k arcs of the set arcs
\* leads from call.s over the nodes seen to v, its last edge is e and its
\* costs, each computed by cost_func from the edge and the edge before it,
\* sum to c
RECURSIVE FuncCostPaths(_, _)
FuncCostPaths(k, arcs) ==
    IF k = 0 THEN {<<call.s, None, 0, {call.s}>>}
    ELSE LET prev == FuncCostPaths(k - 1, arcs)
         IN prev \cup UNION {{<<a[2], a[3],
                                 p[3] + cost_func(a[1], a[2], a[3], p[2]),
                                 p[4] \cup {a[2]}>> :
                                a \in {x \in arcs : x[1] = p[1] /\ x[2] \notin p[4]}} :
                              p \in prev}

\* the least cost_func cost over the paths from call.s to d
MinFuncCost(d) ==
    LET cs == {p[3] : p \in {x \in FuncCostPaths(Cardinality(EffNodes), EffArcs) :
                                x[1] = d}}
    IN CHOOSE c \in cs : \A c2 \in cs : c <= c2

\* C14: with a non-negative cost function that depends on the previously
\* traversed edge, the total cost of the path find_path returns is the least
\* cost, evaluated with the cost function along the path, over all paths from
\* s to d.
C14_CostFuncPathIsLeast ==
    (Returned /\ call.cf /\ ~call.hf /\ path # NoPathInfo) =>
        path.total_cost = MinFuncCost(call.d)

\* the graph G as a graph object with the given undirected flag
WithFlag(G, undirected) == [G EXCEPT !.undirected = undirected]

\* C15: from equal states, add_edge(u, v, e) on an undirected graph leaves
\* the same outgoing adjacency and the same incoming index as add_edge(u, v, e)
\* followed by add_edge(v, u, e) on a directed graph, for all u, v (u = v
\* included) and e that a next call can take (the nodes and labels in use and
\* one new node and label each, every other choice being a renaming of these).
C15_UndirectedAddIsTwoDirected ==
    \A u \in CallNodes : \A v \in CallNodes2(u) : \A e \in CallLabels :
        WithFlag(add_edge(WithFlag(graph, TRUE), u, v, e), FALSE) =
            add_edge(add_edge(WithFlag(graph, FALSE), u, v, e), v, u, e)

\* C15 witness: a call has been made on an undirected graph and a next one
\* can be made; adding an edge between two of its nodes that a differently
\* labelled edge joins changes both arcs, and a loop on a node changes the
\* graph
C15_Witness ==
    /\ graph.undirected /\ 0 < nops /\ nops < MaxOps
    /\ \E u \in Keys(graph.data) : \E v \in Keys(Get(graph.data, u)) \ {u} :
        \E e \in CallLabels \ {Get(Get(graph.data, u), v)} :
           LET und == add_edge(graph, u, v, e)
           IN /\ {u, v} \subseteq CallNodes
              /\ Get(Get(und.data, u), v) = e /\ Get(Get(und.data, v), u) = e
              /\ Get(Get(graph.data, v), u) # e
              /\ add_edge(graph, u, u, e) # graph

\* arc u -> v with label e is stored exactly when arc v -> u with label e is
Symmetric(G) ==
    \A u \in Keys(G.data) : \A v \in Keys(Get(G.data, u)) :
        /\ Has(G.data, v)
        /\ Has(Get(G.data, v), u)
        /\ Get(Get(G.data, v), u) = Get(Get(G.data, u), v)

\* C16: in an undirected graph, after any sequence of add_edge, add_node,
\* remove_edge and remove_node calls, the arc u -> v with label e is stored
\* exactly when the arc v -> u with label e is stored, and the incoming index
\* holds the same arcs.
C16_UndirectedSymmetric ==
    graph.undirected => Symmetric(graph) /\ Mirrored(graph) /\ NoStale(graph)

\* C16 witness: two calls have been made on an undirected graph, the last one
\* raised, and an edge between two different nodes is stored in both
\* directions
C16_Witness ==
    /\ graph.undirected /\ nops = MaxOps /\ exc = "KeyError"
    /\ \E u \in Keys(graph.data) : \E v \in Keys(Get(graph.data, u)) \ {u} :
           /\ Has(graph.data, v) /\ Has(Get(graph.data, v), u)
           /\ Has(graph.incoming, u) /\ Has(Get(graph.incoming, u), v)

\* Graph.edge_count: the assert of an undirected graph fails on an odd count
edge_count(G) ==
    LET count == ArcCount(G.data)
    IN IF ~G.undirected THEN [value |-> count, exc |-> "None"]
       ELSE IF count % 2 # 0 THEN [value |-> None, exc |-> "AssertionError"]
       ELSE [value |-> count \div 2, exc |-> "None"]

\* C17: in an undirected graph, in every state reachable through add_edge,
\* add_node, remove_edge and remove_node, the raw count of adjacency entries
\* is even: the assertion of edge_count does not fail and edge_count returns
\* half the raw count.
C17_EdgeCountAssertionHolds ==
    graph.undirected =>
        /\ ArcCount(graph.data) % 2 = 0
        /\ edge_count(graph).exc = "None"
        /\ 2 * edge_count(graph).value = ArcCount(graph.data)

\* Graph.__iter__: the keys of data, in order
__iter__(G) == [i \in 1..Len(G.data) |-> G.data[i][1]]

\* Graph.get_node: self._data[u]
get_node(G, u) ==
    IF Has(G.data, u) THEN [value |-> Get(G.data, u), exc |-> "None"]
    ELSE [value |-> None, exc |-> "KeyError"]

\* Graph.node_count
node_count(G) == Len(G.data)

\* the elements of a sequence
Range(seq) == {seq[i] : i \in 1..Len(seq)}

\* C18: after add_edge(u, v, e) both u and v are nodes of the graph: both are
\* iterated, found by get_node and counted by node_count, also in a directed
\* graph where v has no outgoing arcs.
C18_AddEdgeCreatesEndpoints ==
    \A u \in Nodes, v \in Nodes, e \in Labels :
        LET G == add_edge(graph, u, v, e)
        IN /\ {u, v} \subseteq Range(__iter__(G))
           /\ get_node(G, u).exc = "None"
           /\ get_node(G, v).exc = "None"
           /\ node_count(G) = Cardinality(Range(__iter__(graph)) \cup {u, v})

\* the arcs <<u, v, e>> stored in the outgoing adjacency
DataArcs(data) ==
    UNION {{<<u, v, Get(Get(data, u), v)>> : v \in Keys(Get(data, u))} :
           u \in Keys(data)}

\* the arcs <<u, v, e>> the incoming index holds as incoming[v][u] = e
IncomingArcs(incoming) ==
    UNION {{<<u, v, Get(Get(incoming, v), u)>> : u \in Keys(Get(incoming, v))} :
           v \in Keys(incoming)}

\* C19: for every reachable graph state and every node u in it, remove_node(u)
\* completes without error and removes exactly u and the arcs incident to u:
\* u is no key and no neighbor in the outgoing adjacency, no key and no
\* predecessor in the incoming index, and every other node and every other
\* arc is unchanged.
C19_RemoveNodeExact ==
    \A u \in Keys(graph.data) :
        LET r == remove_node(graph, u)
        IN /\ r.exc = "None"
           /\ Keys(r.G.data) = Keys(graph.data) \ {u}
           /\ DataArcs(r.G.data) =
                  {a \in DataArcs(graph.data) : a[1] # u /\ a[2] # u}
           /\ ~Has(r.G.incoming, u)
           /\ IncomingArcs(r.G.incoming) =
                  {a \in IncomingArcs(graph.incoming) : a[1] # u /\ a[2] # u}

\* C20: in a directed graph remove_edge(u, v) removes only the arc u -> v and
\* its incoming-index mirror; a stored reverse arc v -> u and its mirror are
\* left unchanged.
C20_DirectedRemoveKeepsReverse ==
    ~graph.undirected =>
        \A u \in Keys(graph.data) : \A v \in Keys(Get(graph.data, u)) :
            LET r == remove_edge(graph, u, v)
                arc == <<u, v, Get(Get(graph.data, u), v)>>
            IN /\ DataArcs(r.G.data) = DataArcs(graph.data) \ {arc}
               /\ IncomingArcs(r.G.incoming) =
                      IncomingArcs(graph.incoming) \ {arc}

\* C21: for every stored arc u -> v, remove_edge(u, v) completes without
\* raising and leaves the arc absent from the outgoing adjacency and from the
\* incoming index, also when v has no outgoing adjacency entry of its own.
C21_RemoveEdgeCompletes ==
    \A u \in Keys(graph.data) : \A v \in Keys(Get(graph.data, u)) :
        LET r == remove_edge(graph, u, v)
        IN /\ r.exc = "None"
           /\ \A a \in DataArcs(r.G.data) \cup IncomingArcs(r.G.incoming) :
                  ~(a[1] = u /\ a[2] = v)

MergesNeighbors(u, neighbors) ==
    LET old == Get(graph.data, u)
        new == Get(add_node(graph, u, neighbors).data, u)
    IN /\ Keys(new) = Keys(old) \cup Keys(neighbors)
       /\ \A v \in Keys(neighbors) : Get(new, v) = Get(neighbors, v)
       /\ \A v \in Keys(old) \ Keys(neighbors) : Get(new, v) = Get(old, v)

RECURSIVE AddEdges(_, _, _, _)
AddEdges(G, d, i, j) ==
    IF i > Len(d) THEN G
    ELSE IF j > Len(d[i][2]) THEN AddEdges(G, d, i + 1, 1)
    ELSE AddEdges(add_edge(G, d[i][1], d[i][2][j][1], d[i][2][j][2]), d, i, j + 1)

\* every node of the mapping d has a non-empty neighbor mapping
NonEmptyNeighbors(d) == \A i \in 1..Len(d) : d[i][2] # EmptyDict

\* C24: for a mapping node -> non-empty neighbor mapping, Graph(mapping),
\* which calls add_node(u, neighbors) for each entry on an empty graph, and
\* add_edge(u, v, e) for every pair on an empty graph yield the same outgoing
\* adjacency and the same incoming index, directed and undirected. The
\* mappings are the outgoing adjacencies of the reachable graphs.
C24_ConstructorIsAddEdges ==
    NonEmptyNeighbors(graph.data) =>
        \A undirected \in BOOLEAN :
            GraphInit(graph.data, undirected) =
                AddEdges(NewGraph(undirected), graph.data, 1, 1)

\* C24 witness: the mapping has two nodes, one of them with two neighbors, and
\* is not symmetric, so that the undirected constructions add arcs to nodes
\* whose entry comes later
C24_Witness ==
    /\ NonEmptyNeighbors(graph.data) /\ ~Symmetric(graph)
    /\ Len(graph.data) >= 2
    /\ \E i \in 1..Len(graph.data) : Len(graph.data[i][2]) >= 2
    /\ LET G == AddEdges(NewGraph(TRUE), graph.data, 1, 1)
       IN /\ Symmetric(G)
          /\ ArcCount(G.data) > ArcCount(graph.data)
          /\ G = GraphInit(graph.data, TRUE)

\* the sequences without repetition of elements of S
RECURSIVE SeqsOver(_)
SeqsOver(S) ==
    {<< >>} \cup UNION {{<<x>> \o t : t \in SeqsOver(S \ {x})} : x \in S}

\* the nodes arguments of a subgraph call that can follow: collections of
\* nodes of the graph
SubgraphArgs == SeqsOver(CallNodes \cap Keys(graph.data))

\* C25 as stated: subgraph(nodes) with disconnect unset returns a graph that
\* contains only arcs whose two endpoints are both in nodes.
C25_SubgraphArcs_Original ==
    \A nodes \in SubgraphArgs :
        \A a \in DataArcs(subgraph(graph, nodes, FALSE).G.data) :
            a[1] \in Range(nodes) /\ a[2] \in Range(nodes)

\* C25, amended: subgraph(nodes) with disconnect unset returns a graph that
\* contains exactly the arcs of the graph that leave a member of nodes,
\* whether or not they lead to a member of nodes.
C25_SubgraphArcs ==
    \A nodes \in SubgraphArgs :
        LET r == subgraph(graph, nodes, FALSE)
        IN /\ r.exc = "None"
           /\ DataArcs(r.G.data) =
                  {a \in DataArcs(graph.data) : a[1] \in Range(nodes)}

\* C25 witness: a subgraph call for two nodes that an arc joins, one of which
\* has an arc to a third node, returns both arcs
C25_Witness ==
    \E nodes \in SubgraphArgs :
        LET arcs == DataArcs(subgraph(graph, nodes, FALSE).G.data)
        IN /\ Len(nodes) = 2
           /\ \E a \in arcs : a[1] = nodes[1] /\ a[2] = nodes[2]
           /\ \E a \in arcs : a[1] \in Range(nodes) /\ a[2] \notin Range(nodes)

\* C26: for every collection nodes of nodes of the graph, subgraph(nodes) with
\* disconnect unset has exactly the members of nodes as its nodes, and for
\* each u in nodes its neighbor mapping equals the neighbor mapping of u in
\* the original graph.
C26_SubgraphNodes ==
    \A nodes \in SubgraphArgs :
        LET r == subgraph(graph, nodes, FALSE)
        IN /\ r.exc = "None"
           /\ Range(__iter__(r.G)) = Range(nodes)
           /\ \A u \in Range(nodes) :
                  /\ get_node(r.G, u).exc = "None"
                  /\ DictEq(get_node(r.G, u).value, Get(graph.data, u))

\* C27: for every collection nodes of nodes of the graph,
\* subgraph(nodes, disconnect=True) completes and, for each u in nodes, holds
\* exactly the arcs of u that lead to nodes outside nodes.
C27_SubgraphDisconnect ==
    \A nodes \in SubgraphArgs :
        LET r == subgraph(graph, nodes, TRUE)
        IN /\ r.exc = "None"
           /\ \A u \in Range(nodes) :
                  /\ get_node(r.G, u).exc = "None"
                  /\ {<<u, p[1], p[2]>> : p \in Range(get_node(r.G, u).value)} =
                         {a \in DataArcs(graph.data) :
                              a[1] = u /\ a[2] \notin Range(nodes)}

\* the graph and the graphs a query get_incoming(v) leaves
AfterQueries ==
    {graph} \cup {get_incoming(graph, v).G : v \in CallNodes}

\* the graph r read back has the outgoing adjacency of G, identically, and
\* an incoming index equal to the one of G
ReadsBack(r, G) ==
    /\ r.exc = "None"
    /\ r.G.data = G.data
    /\ Dict2Eq(r.G.incoming, G.incoming)

\* C28: for every graph state reachable through add_edge, add_node,
\* remove_edge, remove_node and the query methods, dump followed by load, and
\* marshal followed by unmarshal, yield a graph whose outgoing adjacency is
\* identical to the original's and whose rebuilt incoming index equals the
\* original's incoming index.
C28_RoundTrip ==
    \A G \in AfterQueries :
        /\ ReadsBack(load(dump(G)), G)
        /\ ReadsBack(unmarshal(marshal(G)), G)

\* the files a guess_load call can be given: a path or an open file, with
\* the pickle or the marshal bytes of the graph, a pickle cut short, bytes
\* that are neither, or nothing
GuessFiles ==
    {[isstr |-> k, name |-> nm, bytes |-> b] :
        k \in BOOLEAN, nm \in {"g", "g.dat", "g.pickle", "g.marshal"},
        b \in {dump(graph), marshal(graph),
               SubSeq(dump(graph), 1, Len(dump(graph)) - 1), <<0>>, << >>}}

GuessExts == {"", "pickle", "marshal", ".pickle", ".marshal"}

\* the decoder an extension hint names, "" without a hint
Hinted(from_, ext) ==
    IF ext \in {"pickle", ".pickle"} THEN "pickle"
    ELSE IF ext \in {"marshal", ".marshal"} THEN "marshal"
    ELSE IF ext = "" /\ from_.isstr /\ from_.name = "g.pickle" THEN "pickle"
    ELSE IF ext = "" /\ from_.isstr /\ from_.name = "g.marshal" THEN "marshal"
    ELSE ""

\* C29: guess_load given an extension hint uses only the hinted decoder;
\* given no hint, for a path as well as for an open file, it returns the graph
\* of the pickle decoder when that succeeds, else the graph of the marshal
\* decoder run on the same input when that succeeds, and raises only when
\* both decoders fail.
C29_GuessLoad ==
    \A from_ \in GuessFiles : \A ext \in GuessExts :
        LET r == guess_load(from_, ext)
            l == load(from_.bytes)
            m == unmarshal(from_.bytes)
        IN CASE Hinted(from_, ext) = "pickle" ->
                    r.tried = <<"pickle">> /\ r.exc = l.exc /\ r.G = l.G
             [] Hinted(from_, ext) = "marshal" ->
                    r.tried = <<"marshal">> /\ r.exc = m.exc /\ r.G = m.G
             [] OTHER ->
                    IF l.exc = "None" THEN r.exc = "None" /\ r.G = l.G
                    ELSE IF m.exc = "None" THEN r.exc = "None" /\ r.G = m.G
                    ELSE r.exc # "None"

\* single_source_shortest_paths was called without a destination and has
\* returned its predecessor map
ReturnedAll == srch.pc = "returned" /\ call.d = None

\* C30: single_source_shortest_paths called without a destination returns a
\* predecessor map whose keys are exactly the nodes reachable from s in the
\* effective graph, in which s maps to (None, None, None) and every other key
\* v maps to (u, e, c) with u -> v an arc labelled e that lies on a least-cost
\* path from s to v (least in the sum of the labels when no cost function is
\* given).
C30_AllShortestPaths ==
    ReturnedAll =>
        /\ DOMAIN srch.predecessors = ReachFrom({call.s}, EffArcs)
        /\ srch.predecessors[call.s] = <<None, None, None>>
        /\ \A v \in DOMAIN srch.predecessors \ {call.s} :
               LET u == srch.predecessors[v][1]
                   e == srch.predecessors[v][2]
               IN /\ <<u, v, e>> \in EffArcs
                  /\ ~call.cf => MinCost(u) + e = MinCost(v)

\* ------------------------------------------------------------ the visit queue
\* (priority key, sequence number) of x comes before that of y
KeyBefore(x, y) == x[1] < y[1] \/ (x[1] = y[1] /\ x[2] < y[2])

\* the while loop is about to pop an entry (lines 142-146)
AtPop == srch.pc = "loop" /\ srch.visit_queue # {}

\* the entries the step takes from the queue
Popped == srch.visit_queue \ srch'.visit_queue

\* C31: the sequence numbers of the queue entries are distinct and below the
\* counter, so the order by (priority key, sequence number) is total without
\* comparing nodes; every pass of the loop pops exactly one entry, the one
\* that comes before every other entry of the queue in that order (among
\* equal keys the one pushed earlier), and the entries it pushes carry
\* sequence numbers above every one given out before.
C31_PopOrder ==
    /\ [](\A x \in srch.visit_queue :
             /\ x[2] < srch.counter
             /\ \A y \in srch.visit_queue : x[2] = y[2] => x = y)
    /\ [][AtPop =>
             /\ \E x \in srch.visit_queue :
                    /\ Popped = {x}
                    /\ \A y \in srch.visit_queue \ {x} : KeyBefore(x, y)
             /\ \A y \in srch'.visit_queue \ srch.visit_queue :
                    /\ y[2] >= srch.counter
                    /\ y[2] < srch'.counter]_vars

\* C31 witness: the queue holds two entries of equal priority key of which
\* the one pushed earlier is for the greater node, after a node was expanded.
C31_Witness ==
    /\ AtPop
    /\ srch.visited # {}
    /\ \E x, y \in srch.visit_queue :
           x[1] = y[1] /\ x[2] < y[2] /\ x[3] > y[3]
           /\ \A z \in srch.visit_queue : z = x \/ KeyBefore(x, z)

\* ------------------------------------------------------- two search calls
\* a call has returned its predecessor map or raised NoPathError
Ended(st) == st.pc \in {"returned", "NoPathError"}

\* the locals the call has when it runs alone from its entry to its end
Alone(c, annexArg) ==
    SearchRun(SearchStart(c.s), graph.data, annexArg, c.d, c.cf, c.hf)

\* C32: of two calls whose loop passes interleave on the same graph and annex,
\* each ends as it ends when run alone: the same return or NoPathError, with
\* the same predecessor map, costs, visited set, queue and counter.
C32_InterleavedAsAlone ==
    /\ Ended(srch) => srch = Alone(call, AnnexArg)
    /\ Ended(peer.srch) => peer.srch = Alone(peer.call, PeerAnnexArg)

\* C32 witness: the first call has ended while the second, started from
\* another node, is in its loop with nodes visited and entries queued, and
\* the two calls have visited a node in common.
C32_Witness ==
    /\ Ended(srch)
    /\ peer.srch.pc = "loop"
    /\ peer.call.s # call.s
    /\ peer.srch.visit_queue # {}
    /\ peer.srch.visited \cap srch.visited # {}

\* --------------------------------------------------------- visiting nodes
\* the locals a pass of the loop may change, the queue apart
Recorded(st) == <<st.costs, st.predecessors, st.visited, st.counter>>

\* C33: in every step of a search the visited set only grows; the recorded
\* cost and predecessor of a node already visited stay as they are; a pass
\* that pops an entry for a node already visited only removes that entry; and
\* a pass changes costs, predecessors or the counter only when it marks the
\* popped node, until then unvisited, as visited. So a node is marked and its
\* neighbors are examined at most once.
C33_VisitedOnce ==
    [][srch.pc = "loop" =>
          /\ srch.visited \subseteq srch'.visited
          /\ \A v \in srch.visited :
                 /\ v \in DOMAIN srch.costs
                 /\ srch'.costs[v] = srch.costs[v]
                 /\ srch'.predecessors[v] = srch.predecessors[v]
          /\ \A x \in Popped :
                 /\ x[3] \in srch.visited =>
                        /\ Recorded(srch') = Recorded(srch)
                        /\ srch'.visit_queue = srch.visit_queue \ {x}
                 /\ Recorded(srch') # Recorded(srch) =>
                        /\ x[3] \notin srch.visited
                        /\ srch'.visited = srch.visited \cup {x[3]}
          /\ Popped = {} => Recorded(srch') = Recorded(srch)]_vars

\* C33 witness: a node that was visited and whose cost was lowered before
\* that still has its earlier entry in the queue, and this stale entry is the
\* next to be popped.
C33_Witness ==
    /\ AtPop
    /\ HeapMin(srch.visit_queue)[3] \in srch.visited
    /\ HeapMin(srch.visit_queue)[3] # call.d
    /\ HeapMin(srch.visit_queue)[1] > srch.costs[HeapMin(srch.visit_queue)[3]]

\* ------------------------------------------------------------- early exit
\* C34: a given destination d is never in visited; the pass that pops an
\* entry for d ends the loop with the call returning, and changes no cost,
\* no predecessor, not the visited set and not the counter, so the neighbors
\* of d are not examined; and once the call has returned none of these
\* changes any more.
C34_StopsAtDestination ==
    /\ [](call.d # None => call.d \notin srch.visited)
    /\ [][/\ (AtPop /\ \E x \in Popped : x[3] = call.d) =>
                /\ srch'.pc = "returned"
                /\ Recorded(srch') = Recorded(srch)
          /\ srch.pc \in {"returned", "done"} =>
                /\ Recorded(srch') = Recorded(srch)
                /\ srch'.visit_queue = srch.visit_queue]_vars

\* C34 witness: a call with a destination other than its start node has
\* returned with entries left in the queue, and the destination has a
\* neighbor that is unreached or whose recorded cost an examination of the
\* destination's arcs would have lowered.
C34_Witness ==
    /\ srch.pc = "returned"
    /\ call.d # None /\ call.d # call.s
    /\ ~call.cf /\ ~call.hf
    /\ srch.visit_queue # {}
    /\ \E i \in 1..Len(EffNeighbors(call.d)) :
           LET v == EffNeighbors(call.d)[i][1]
               e == EffNeighbors(call.d)[i][2]
           IN /\ v \notin srch.visited
              /\ v \notin DOMAIN srch.costs \/ srch.costs[v] > srch.costs[call.d] + e

\* ------------------------------------------------------------ equal costs
\* C35: a step replaces the recorded cost or predecessor of a reached node
\* only by a strictly lower cost, so the predecessor recorded first is kept
\* when a path of equal cost turns up; on graph2 of the tests find_path from
\* a to i returns the nodes a, d, e, f, i.
C35_StrictImprovement ==
    /\ []((srch.pc = "done" /\ graph.data = Graph2Data /\ call.s = 1
            /\ call.d = 9 /\ ~call.cf /\ ~call.hf) =>
               path.nodes = <<1, 4, 5, 6, 9>>)
    /\ [][srch.pc = "loop" =>
             \A v \in DOMAIN srch.costs :
                 (srch'.costs[v] # srch.costs[v]
                  \/ srch'.predecessors[v] # srch.predecessors[v]) =>
                     srch'.costs[v] < srch.costs[v]]_vars

\* C35 witness: find_path from a to i on graph2 has returned a, d, e, f, i
\* with i reached through f, while h, visited at cost 6, has an arc to i with
\* label 3 that gives i the same cost 9.
C35_Witness ==
    /\ srch.pc = "done"
    /\ graph.data = Graph2Data
    /\ call.s = 1 /\ call.d = 9 /\ ~call.cf /\ ~call.hf
    /\ path.nodes = <<1, 4, 5, 6, 9>>
    /\ path.total_cost = 9
    /\ srch.predecessors[9][1] = 6
    /\ 8 \in srch.visited
    /\ srch.costs[8] + Get(Get(graph.data, 8), 9) = srch.costs[9]

\* ------------------------------------------------------------ termination
\* C36: a call of single_source_shortest_paths that has entered its loop
\* reaches its return or its NoPathError, on every graph, whatever the signs
\* of the labels, cycles of zero or negative total included, with or without
\* a destination.
C36_Terminates == (srch.pc = "loop") ~> Ended(srch)

\* C36 witness: a call has ended after visiting two nodes that lie on a
\* cycle of negative total label, or one node with a negative loop.
C36_Witness ==
    /\ Ended(srch)
    /\ \E u, v \in srch.visited :
           /\ Has(graph.data, u) /\ Has(Get(graph.data, u), v)
           /\ Has(graph.data, v) /\ Has(Get(graph.data, v), u)
           /\ Get(Get(graph.data, u), v) + Get(Get(graph.data, v), u) < 0

\* -------------------------------------------------------- predecessor map
\* the node without predecessor that the chain of predecessors from v leads
\* to in at most k steps, None when there is none
RECURSIVE ChainRoot(_, _, _)
ChainRoot(predecessors, v, k) ==
    IF v \notin DOMAIN predecessors THEN None
    ELSE IF predecessors[v][1] = None THEN v
    ELSE IF k = 0 THEN None
    ELSE ChainRoot(predecessors, predecessors[v][1], k - 1)

\* C37: in every state of a search predecessors[s] is (None, None, None);
\* every other key v maps to (u, e, c) with u a visited node and a key of
\* predecessors; the chain of predecessors from every key leads to s without
\* repeating a node; and for every key v of a returned map the extraction
\* gives a node list from s to v, one node longer than its edge list.
C37_PredecessorsForm ==
    srch.pc # "idle" =>
        /\ call.s \in DOMAIN srch.predecessors
        /\ srch.predecessors[call.s] = <<None, None, None>>
        /\ \A v \in DOMAIN srch.predecessors \ {call.s} :
               /\ srch.predecessors[v][1] # None
               /\ srch.predecessors[v][1] \in srch.visited
               /\ srch.predecessors[v][1] \in DOMAIN srch.predecessors
        /\ \A v \in DOMAIN srch.predecessors :
               ChainRoot(srch.predecessors, v,
                         Cardinality(DOMAIN srch.predecessors) - 1) = call.s
        /\ srch.pc \in {"returned", "done"} =>
               \A v \in DOMAIN srch.predecessors :
                   LET p == extract_shortest_path_from_predecessor_list(
                                srch.predecessors, v)
                   IN /\ p.nodes[1] = call.s
                      /\ p.nodes[Len(p.nodes)] = v
                      /\ Len(p.nodes) = Len(p.edges) + 1
                      /\ Len(p.nodes) <= Cardinality(DOMAIN srch.predecessors)

\* C37 witness: the call has returned; a visited node v other than s was
\* reached from u and has an arc back to u, the two arcs summing to less than
\* zero, yet u keeps its own predecessor entry.
C37_Witness ==
    /\ srch.pc \in {"returned", "done"}
    /\ \E v \in srch.visited \ {call.s} :
           LET u == srch.predecessors[v][1]
           IN /\ Has(graph.data, v) /\ Has(Get(graph.data, v), u)
              /\ Get(Get(graph.data, u), v) + Get(Get(graph.data, v), u) < 0
              /\ srch.predecessors[u][1] # v

\* ------------------------------------------------------------ get_incoming
\* C38: get_incoming(v) leaves the graph as it was, for every v, a node
\* without incoming arcs and a value that is not a node included: the
\* outgoing adjacency is the same and the incoming index compares equal.
C38_GetIncomingPure ==
    \A v \in Nodes :
        LET r == get_incoming(graph, v)
        IN /\ r.G.data = graph.data
           /\ r.G.undirected = graph.undirected
           /\ Dict2Eq(r.G.incoming, graph.incoming)

\* ------------------------------------------------- undirected graphs on file
\* C39: the graph read back by load, or by unmarshal, from what an
\* undirected graph wrote is undirected: add_edge(u, v, e) on it stores
\* v -> u with e as well, and the adjacency stays symmetric.
C39_LoadKeepsUndirected ==
    graph.undirected =>
        \A r \in {load(dump(graph)), unmarshal(marshal(graph))} :
            /\ r.exc = "None"
            /\ r.G.undirected
            /\ \A u \in Nodes, v \in Nodes, e \in Labels :
                   LET g2 == add_edge(r.G, u, v, e)
                   IN /\ Has(g2.data, v)
                      /\ Has(Get(g2.data, v), u)
                      /\ Get(Get(g2.data, v), u) = e
                      /\ Symmetric(g2)

\* ------------------------------------------------- the index of a subgraph
\* C40: the graph subgraph(nodes, disconnect) returns, with disconnect set or
\* not, has incoming[v][u] = e exactly when it stores the arc u -> v with
\* label e.
C40_SubgraphMirrored ==
    \A nodes \in SubgraphArgs : \A disconnect \in BOOLEAN :
        LET r == subgraph(graph, nodes, disconnect)
        IN r.exc = "None" => Mirrored(r.G) /\ NoStale(r.G)

====
